---- MODULE Spec2Model ----
(***************************************************************************)
(* Verification model of the sns-sdk client library.                       *)
(*                                                                         *)
(*  - SpecCache : the TTL cache of src/src/utils/cache.ts (class Cache).   *)
(*  - SpecRetry : retryWithBackoff of src/unnamed/part_002.                *)
(*  - SpecNames : normalizeDomainName, validateDomainName and the cache    *)
(*                key generators, applied to the spellings of a label.     *)
(*  - SpecPricing : calculateBasePrice, getDiscount and calculatePrice of   *)
(*                src/unnamed/part_002.                                    *)
(*  - SpecSNS   : the read and write operations of the SNS facade over the *)
(*                caches of its registry, registrar and resolver.          *)
(*  - SpecFacade : the writes and the batch read of the facade, each with  *)
(*                the answers of the chain it may meet.                    *)
(*  - SpecBatch : chunkArray and the loop of SNS.resolveBatch over its     *)
(*                chunks; SpecBatchLive adds weak fairness of its steps.   *)
(*  - SpecRace  : two calls of the registrar, registry and resolver in     *)
(*                progress at once, interleaved at their awaits.           *)
(*                                                                         *)
(* The cache's store is a JavaScript Map: it iterates in insertion order   *)
(* and Map.set on a present key keeps the key's position.  It is modelled  *)
(* as a sequence of [key, data, timestamp, ttl] records with pairwise      *)
(* distinct keys.  Date.now() is the variable now, advanced by Tick.       *)
(***************************************************************************)
EXTENDS Integers, Sequences, FiniteSets, TLC

VARIABLES
    store,            \* Cache.store : Map<string, CacheEntry>, in insertion order
    cleanupInterval,  \* Cache.cleanupInterval : TimerOn or TimerNull
    timerLive,        \* whether the runtime still holds the setInterval timer
    defaultTTL,       \* Cache.defaultTTL (constructor argument)
    maxEntries,       \* Cache.maxEntries (constructor argument)
    now,              \* Date.now()
    ret,              \* the last call made on the cache and what it returned
    pc,               \* retryWithBackoff: control position
    attempts,         \* retryWithBackoff: parameter attempts
    delay,            \* retryWithBackoff: parameter delay
    i,                \* retryWithBackoff: loop index
    lastError,        \* retryWithBackoff: local lastError
    calls,            \* number of invocations of fn so far
    thrown,           \* the errors fn has thrown, one per failed invocation
    sleeps,           \* the durations passed to sleep(), in order
    outcome,          \* what retryWithBackoff resolved or rejected with
    label,            \* a domain label, as first written
    spelling,         \* a spelling of label: case changed, TLD appended
    out,              \* the last function applied to spelling and its result
    yearCount,        \* a number of years, the argument of the pricing functions
    cfg,              \* SNS.config
    caches,           \* the store of the Cache of each component of the SNS
    inflight,         \* the read operation in progress
    reply,            \* the last operation the SNS completed and its result
    invocation,       \* the last write or batch invoked: arguments, remote calls, result
    batch,            \* a resolveBatch call in progress: chunkArray's loop, then the chunks
    tasks,            \* the calls in progress at once, each with its control position
    ledger            \* the chain: transactions taken; the calls in order of completion

cacheVars == <<store, cleanupInterval, timerLive, defaultTTL, maxEntries, now, ret>>
retryVars == <<pc, attempts, delay, i, lastError, calls, thrown, sleeps, outcome>>
nameVars == <<label, spelling, out, yearCount>>
snsVars == <<cfg, caches, inflight, reply, invocation>>
moreVars == <<batch, tasks, ledger>>
vars == <<store, cleanupInterval, timerLive, defaultTTL, maxEntries, now, ret,
          pc, attempts, delay, i, lastError, calls, thrown, sleeps, outcome,
          label, spelling, out, yearCount, cfg, caches, inflight, reply, invocation,
          batch, tasks, ledger>>

----------------------------------------------------------------------------
(* Bounds of the model *)

MaxTime == 2
MaxCapacity == 2
MaxTTL == 1

(* Values of the model *)

Keys == {"", "a"}       \* cache keys: arbitrary strings, "" included
Values == {"v1", "v2"}        \* cached values
Null == "null"                \* JavaScript null, as returned by get()
Undefined == -1               \* an omitted ttl argument
TimerOn == "timer"            \* a live NodeJS.Timeout handle
TimerNull == "null"           \* cleanupInterval = null
TTLArgs == {Undefined} \cup (0 .. MaxTTL)
DefaultTTLs == {0, MaxTTL + 1}  \* new Cache(0) and new Cache(cacheTTL)

----------------------------------------------------------------------------
(* The JavaScript Map holding the entries *)

MapKeys(s) == {s[n].key : n \in 1 .. Len(s)}

MapHas(s, key) == key \in MapKeys(s)

MapIndex(s, key) == CHOOSE n \in 1 .. Len(s) : s[n].key = key

MapGet(s, key) == s[MapIndex(s, key)]

MapDelete(s, key) == SelectSeq(s, LAMBDA e : e.key # key)

(* Mutant of MapSet: a present key keeps its entry *)
MapSetKeepsFirst(s, key, e) == IF MapHas(s, key) THEN s ELSE Append(s, e)

MapSet(s, key, e) ==
    IF MapHas(s, key)
    THEN [s EXCEPT ![MapIndex(s, key)] = e]
    ELSE Append(s, e)

(* A JavaScript string is truthy unless it is empty; undefined is falsy *)
Truthy(key) == key # "" /\ key # "undefined"

OldestKey(s) == IF Len(s) > 0 THEN s[1].key ELSE "undefined"

----------------------------------------------------------------------------
(* class Cache *)

(* CacheEntry {data, timestamp, ttl} under its key.  The field arg is not in the
   code: it remembers the ttl argument the entry was stored with. *)
Entry(key, value, ts, ttl, arg) ==
    [key |-> key, data |-> value, timestamp |-> ts, ttl |-> ttl, arg |-> arg]

(* Mutant of EffectiveTTL: the supplied ttl is ignored *)
EffectiveTTLIgnoresArg(ttl) == defaultTTL

(* ttl || this.defaultTTL *)
EffectiveTTL(ttl) == IF ttl = Undefined \/ ttl = 0 THEN defaultTTL ELSE ttl

(* Mutant of Expired: >= in place of > *)
ExpiredAtTtl(e, t) == t - e.timestamp >= e.ttl

(* Date.now() - entry.timestamp > entry.ttl *)
Expired(e, t) == t - e.timestamp > e.ttl

(* set(): the capacity check that precedes the insertion *)
Evict(s) ==
    IF Len(s) >= maxEntries
    THEN IF Truthy(OldestKey(s)) THEN MapDelete(s, OldestKey(s)) ELSE s
    ELSE s

(* Mutant of StoreAfterSet: an overwritten entry keeps its old timestamp *)
StoreAfterSetKeepsAge(s, key, value, ttl) ==
    MapSet(Evict(s), key,
           Entry(key, value,
                 IF MapHas(s, key) THEN MapGet(s, key).timestamp ELSE now,
                 EffectiveTTL(ttl), ttl))

(* set(): the store it leaves *)
StoreAfterSet(s, key, value, ttl) ==
    MapSet(Evict(s), key, Entry(key, value, now, EffectiveTTL(ttl), ttl))

(* Mutant of GetResult: every look into the cache misses *)
GetResultNull(s, key) == Null

(* get(): the value it returns *)
GetResult(s, key) ==
    IF ~MapHas(s, key) THEN Null
    ELSE IF Expired(MapGet(s, key), now) THEN Null
    ELSE MapGet(s, key).data

(* get(): the store it leaves *)
StoreAfterGet(s, key) ==
    IF MapHas(s, key) /\ Expired(MapGet(s, key), now) THEN MapDelete(s, key) ELSE s

(* Mutant of StoreAfterCleanup: the scan stops after the first deletion *)
StoreAfterCleanupFirstOnly(s) ==
    IF \E n \in 1 .. Len(s) : Expired(s[n], now)
    THEN MapDelete(s, s[CHOOSE n \in 1 .. Len(s) :
                            /\ Expired(s[n], now)
                            /\ \A m \in 1 .. n - 1 : ~Expired(s[m], now)].key)
    ELSE s

(* Mutant of StoreAfterCleanup: the scan deletes nothing *)
StoreAfterCleanupNothing(s) == s

(* cleanup(): the store it leaves and the count it returns *)
StoreAfterCleanup(s) == SelectSeq(s, LAMBDA e : ~Expired(e, now))

RemovedCount(s) == Cardinality({n \in 1 .. Len(s) : Expired(s[n], now)})

(* Mutant of ClearInterval: the timer is not cleared *)
ClearIntervalForgotten(live, handle) == live

(* clearInterval(handle): the runtime's timer is live no longer *)
ClearInterval(live, handle) == IF handle # TimerNull THEN FALSE ELSE live

(* The value key holds in s, expired or not; Null when s has no such key *)
Held(s, key) == IF MapHas(s, key) THEN MapGet(s, key).data ELSE Null

(* How many keys of s are keys of t no longer *)
Removed(s, t) == Cardinality(MapKeys(s) \ MapKeys(t))

(* A call on the cache: its name, its arguments, what it returned, the value
   the key held when the call was made, and how many keys the call removed *)
Call(op, key, value, ttl, result, held, removed) ==
    [op |-> op, key |-> key, value |-> value, ttl |-> ttl, result |-> result,
     held |-> held, removed |-> removed]

(* new Cache(defaultTTL, maxEntries): the constructor starts the sweep timer *)
InitCache ==
    /\ store = << >>
    /\ cleanupInterval = TimerOn
    /\ timerLive = TRUE
    /\ defaultTTL \in DefaultTTLs
    /\ maxEntries \in 1 .. MaxCapacity
    /\ now = 0
    /\ ret = Call("new", "", Null, Undefined, Null, Null, 0)

Set(key, value, ttl) ==
    /\ store' = StoreAfterSet(store, key, value, ttl)
    /\ ret' = Call("set", key, value, ttl, Null, Held(store, key), Removed(store, store'))
    /\ UNCHANGED <<cleanupInterval, timerLive, defaultTTL, maxEntries, now>>
    /\ UNCHANGED <<retryVars, nameVars, snsVars, moreVars>>

Get(key) ==
    /\ store' = StoreAfterGet(store, key)
    /\ ret' = Call("get", key, Null, Undefined, GetResult(store, key), Held(store, key), Removed(store, store'))
    /\ UNCHANGED <<cleanupInterval, timerLive, defaultTTL, maxEntries, now>>
    /\ UNCHANGED <<retryVars, nameVars, snsVars, moreVars>>

(* has(key): this.get(key) !== null *)
Has(key) ==
    /\ store' = StoreAfterGet(store, key)
    /\ ret' = Call("has", key, Null, Undefined, GetResult(store, key) # Null, Held(store, key), Removed(store, store'))
    /\ UNCHANGED <<cleanupInterval, timerLive, defaultTTL, maxEntries, now>>
    /\ UNCHANGED <<retryVars, nameVars, snsVars, moreVars>>

Delete(key) ==
    /\ store' = MapDelete(store, key)
    /\ ret' = Call("delete", key, Null, Undefined, MapHas(store, key), Held(store, key), Removed(store, store'))
    /\ UNCHANGED <<cleanupInterval, timerLive, defaultTTL, maxEntries, now>>
    /\ UNCHANGED <<retryVars, nameVars, snsVars, moreVars>>

Clear ==
    /\ store' = << >>
    /\ ret' = Call("clear", "", Null, Undefined, Null, Null, Len(store))
    /\ UNCHANGED <<cleanupInterval, timerLive, defaultTTL, maxEntries, now>>
    /\ UNCHANGED <<retryVars, nameVars, snsVars, moreVars>>

Stats ==
    /\ ret' = Call("stats", "", Null, Undefined,
                   [size |-> Len(store), keys |-> [n \in 1 .. Len(store) |-> store[n].key]],
                   Null, 0)
    /\ UNCHANGED <<store, cleanupInterval, timerLive, defaultTTL, maxEntries, now>>
    /\ UNCHANGED <<retryVars, nameVars, snsVars, moreVars>>

Cleanup ==
    /\ store' = StoreAfterCleanup(store)
    /\ ret' = Call("cleanup", "", Null, Undefined, RemovedCount(store), Null, Removed(store, store'))
    /\ UNCHANGED <<cleanupInterval, timerLive, defaultTTL, maxEntries, now>>
    /\ UNCHANGED <<retryVars, nameVars, snsVars, moreVars>>

(* The setInterval callback of startCleanupInterval: () => this.cleanup() *)
Sweep ==
    /\ timerLive
    /\ store' = StoreAfterCleanup(store)
    /\ ret' = Call("sweep", "", Null, Undefined, Null, Null, Removed(store, store'))
    /\ UNCHANGED <<cleanupInterval, timerLive, defaultTTL, maxEntries, now>>
    /\ UNCHANGED <<retryVars, nameVars, snsVars, moreVars>>

StopCleanup ==
    /\ timerLive' = ClearInterval(timerLive, cleanupInterval)
    /\ cleanupInterval' = TimerNull
    /\ ret' = Call("stopCleanup", "", Null, Undefined, Null, Null, 0)
    /\ UNCHANGED <<store, defaultTTL, maxEntries, now>>
    /\ UNCHANGED <<retryVars, nameVars, snsVars, moreVars>>

(* destroy(): this.stopCleanup(); this.clear() *)
Destroy ==
    /\ timerLive' = ClearInterval(timerLive, cleanupInterval)
    /\ cleanupInterval' = TimerNull
    /\ store' = << >>
    /\ ret' = Call("destroy", "", Null, Undefined, Null, Null, Len(store))
    /\ UNCHANGED <<defaultTTL, maxEntries, now>>
    /\ UNCHANGED <<retryVars, nameVars, snsVars, moreVars>>

(* The clock advances between calls *)
Tick ==
    /\ now < MaxTime
    /\ now' = now + 1
    /\ UNCHANGED <<store, cleanupInterval, timerLive, defaultTTL, maxEntries, ret>>
    /\ UNCHANGED <<retryVars, nameVars, snsVars, moreVars>>

(* Any call on the cache, with the values to store drawn from vals *)
NextCacheOf(vals) ==
    \/ \E key \in Keys, value \in vals, ttl \in TTLArgs : Set(key, value, ttl)
    \/ \E key \in Keys : Get(key)
    \/ \E key \in Keys : Has(key)
    \/ \E key \in Keys : Delete(key)
    \/ Clear
    \/ Stats
    \/ Cleanup
    \/ Sweep
    \/ StopCleanup
    \/ Destroy
    \/ Tick

NextCache == NextCacheOf(Values)

----------------------------------------------------------------------------
(* retryWithBackoff(fn, attempts, delay) *)

MaxAttempts == 4
MaxDelay == 2
BACKOFF_MULTIPLIER == 2

Errors == {"e1", "e2"}        \* the errors fn may throw
Results == {"r1"}             \* the values fn may resolve with

RECURSIVE Pow(_, _)
Pow(b, n) == IF n = 0 THEN 1 ELSE b * Pow(b, n - 1)

(* for (let i = 0; i < attempts; i++) *)
LoopContinues(n, a) == n < a

(* if (i === attempts - 1) *)
LastAttempt(n, a) == n = a - 1

(* Mutant of BackoffDelay: the wait grows linearly *)
BackoffDelayLinear(d, n) == d * (n + 1)

(* delay * Math.pow(RETRY_CONFIG.BACKOFF_MULTIPLIER, i) *)
BackoffDelay(d, n) == d * Pow(BACKOFF_MULTIPLIER, n)

(* Mutant of Rejection: the error is wrapped in a new one *)
RejectionWrapped(e) == [kind |-> "rejected", value |-> "wrapped"]

(* throw lastError: the promise rejects with the caught value itself *)
Rejection(e) == [kind |-> "rejected", value |-> e]

(* Mutant of Resolution: the value fn resolved with is dropped *)
ResolutionUndefined(v) == [kind |-> "resolved", value |-> "undefined"]

(* return await fn(): the promise resolves with the value fn resolved with *)
Resolution(v) == [kind |-> "resolved", value |-> v]

Pending == [kind |-> "pending", value |-> "undefined"]

InitRetryIdle ==
    /\ pc = "idle"
    /\ attempts = 0
    /\ delay = 0
    /\ i = 0
    /\ lastError = "undefined"
    /\ calls = 0
    /\ thrown = << >>
    /\ sleeps = << >>
    /\ outcome = Pending

InitRetry ==
    /\ pc = "loop"
    /\ attempts \in 0 .. MaxAttempts
    /\ delay \in 1 .. MaxDelay
    /\ i = 0
    /\ lastError = "undefined"
    /\ calls = 0
    /\ thrown = << >>
    /\ sleeps = << >>
    /\ outcome = Pending

(* The loop test holds: the body runs and fn is invoked *)
LoopEnter ==
    /\ pc = "loop"
    /\ LoopContinues(i, attempts)
    /\ pc' = "call"
    /\ UNCHANGED <<attempts, delay, i, lastError, calls, thrown, sleeps, outcome>>
    /\ UNCHANGED <<cacheVars, nameVars, snsVars, moreVars>>

(* The loop test fails: throw lastError! after the loop *)
LoopExit ==
    /\ pc = "loop"
    /\ ~LoopContinues(i, attempts)
    /\ pc' = "rejected"
    /\ outcome' = Rejection(lastError)
    /\ UNCHANGED <<attempts, delay, i, lastError, calls, thrown, sleeps>>
    /\ UNCHANGED <<cacheVars, nameVars, snsVars, moreVars>>

(* return await fn(): fn resolves *)
FnResolves(v) ==
    /\ pc = "call"
    /\ calls' = calls + 1
    /\ pc' = "resolved"
    /\ outcome' = Resolution(v)
    /\ UNCHANGED <<attempts, delay, i, lastError, thrown, sleeps>>
    /\ UNCHANGED <<cacheVars, nameVars, snsVars, moreVars>>

(* fn rejects with e: the catch block *)
FnRejects(e) ==
    /\ pc = "call"
    /\ calls' = calls + 1
    /\ thrown' = Append(thrown, e)
    /\ lastError' = e
    /\ IF LastAttempt(i, attempts)
       THEN /\ pc' = "rejected"
            /\ outcome' = Rejection(e)
       ELSE /\ pc' = "sleep"
            /\ UNCHANGED outcome
    /\ UNCHANGED <<attempts, delay, i, sleeps>>
    /\ UNCHANGED <<cacheVars, nameVars, snsVars, moreVars>>

(* await sleep(backoffDelay) ends; i++ *)
SleepDone ==
    /\ pc = "sleep"
    /\ sleeps' = Append(sleeps, BackoffDelay(delay, i))
    /\ i' = i + 1
    /\ pc' = "loop"
    /\ UNCHANGED <<attempts, delay, lastError, calls, thrown, outcome>>
    /\ UNCHANGED <<cacheVars, nameVars, snsVars, moreVars>>

NextRetry ==
    \/ LoopEnter
    \/ LoopExit
    \/ \E v \in Results : FnResolves(v)
    \/ \E e \in Errors : FnRejects(e)
    \/ SleepDone

InitCacheIdle ==
    /\ store = << >>
    /\ cleanupInterval = TimerNull
    /\ timerLive = FALSE
    /\ defaultTTL = 0
    /\ maxEntries = 1
    /\ now = 0
    /\ ret = Call("none", "", Null, Undefined, Null, Null, 0)

----------------------------------------------------------------------------
(* Domain names.  A JavaScript string is a sequence of one-character strings;
   the fixed prefix of a cache key is kept as one element of its sequence. *)

MaxNameLen == 4

TLD == <<".", "s">>
MIN_LENGTH == 3
MAX_LENGTH == 64
MAX_REGISTRATION_YEARS == 5

LowerLetters ==
    <<"a", "b", "c", "d", "e", "f", "g", "h", "i", "j", "k", "l", "m",
      "n", "o", "p", "q", "r", "s", "t", "u", "v", "w", "x", "y", "z">>

UpperLetters ==
    <<"A", "B", "C", "D", "E", "F", "G", "H", "I", "J", "K", "L", "M",
      "N", "O", "P", "Q", "R", "S", "T", "U", "V", "W", "X", "Y", "Z">>

Digits == {"0", "1", "2", "3", "4", "5", "6", "7", "8", "9"}

IsLower(c) == \E n \in 1 .. 26 : LowerLetters[n] = c

IsUpper(c) == \E n \in 1 .. 26 : UpperLetters[n] = c

LowerChar(c) ==
    IF IsUpper(c) THEN LowerLetters[CHOOSE n \in 1 .. 26 : UpperLetters[n] = c] ELSE c

UpperChar(c) ==
    IF IsLower(c) THEN UpperLetters[CHOOSE n \in 1 .. 26 : LowerLetters[n] = c] ELSE c

(* Mutant of ToLowerCase: the string is left as it is *)
ToLowerCaseSkipped(s) == s

(* String.prototype.toLowerCase *)
ToLowerCase(s) == [n \in 1 .. Len(s) |-> LowerChar(s[n])]

(* Where pat occurs in s *)
Occurrences(s, pat) ==
    {k \in 1 .. Len(s) - Len(pat) + 1 : SubSeq(s, k, k + Len(pat) - 1) = pat}

First(S) == CHOOSE k \in S : \A m \in S : k <= m

(* Mutant of ReplaceFirst: nothing is replaced *)
ReplaceFirstSkipped(s, pat, rep) == s

(* String.prototype.replace with a string pattern: the first occurrence of pat,
   wherever it is, gives way to rep *)
ReplaceFirst(s, pat, rep) ==
    IF Occurrences(s, pat) = {} THEN s
    ELSE SubSeq(s, 1, First(Occurrences(s, pat)) - 1) \o rep
         \o SubSeq(s, First(Occurrences(s, pat)) + Len(pat), Len(s))

(* normalizeDomainName(name); !name holds of the empty string *)
NormalizeDomainName(name) ==
    IF Len(name) = 0 THEN << >> ELSE ReplaceFirst(ToLowerCase(name), TLD, << >>)

(* VALIDATION_RULES *)
VALID_CHARS(s) ==
    Len(s) > 0 /\ \A n \in 1 .. Len(s) : IsLower(s[n]) \/ s[n] \in Digits \/ s[n] = "-"

NO_DOUBLE_HYPHEN(s) == Occurrences(s, <<"-", "-">>) # {}

(* Mutant of STARTS_WITH_LETTER: the pattern without its anchor *)
StartsWithLetterUnanchored(s) == \E n \in 1 .. Len(s) : IsLower(s[n])

STARTS_WITH_LETTER(s) == Len(s) > 0 /\ IsLower(s[1])

ENDS_WITH_LETTER_OR_NUMBER(s) ==
    Len(s) > 0 /\ (IsLower(s[Len(s)]) \/ s[Len(s)] \in Digits)

Rule(broken, error) == IF broken THEN <<error>> ELSE << >>

(* Mutant of CleanNameErrors: the checks stop at the first rule that is broken *)
CleanNameErrorsFirstOnly(cleanName) ==
    IF Len(cleanName) < MIN_LENGTH THEN <<"too short">>
    ELSE IF Len(cleanName) > MAX_LENGTH THEN <<"too long">>
    ELSE IF ~VALID_CHARS(cleanName) THEN <<"invalid characters">>
    ELSE IF NO_DOUBLE_HYPHEN(cleanName) THEN <<"consecutive hyphens">>
    ELSE IF ~STARTS_WITH_LETTER(cleanName) THEN <<"must start with a letter">>
    ELSE IF ~ENDS_WITH_LETTER_OR_NUMBER(cleanName)
         THEN <<"must end with a letter or number">>
    ELSE << >>

(* validateDomainName(name): the errors it collects on cleanName *)
CleanNameErrors(cleanName) ==
    Rule(Len(cleanName) < MIN_LENGTH, "too short")
    \o Rule(Len(cleanName) > MAX_LENGTH, "too long")
    \o Rule(~VALID_CHARS(cleanName), "invalid characters")
    \o Rule(NO_DOUBLE_HYPHEN(cleanName), "consecutive hyphens")
    \o Rule(~STARTS_WITH_LETTER(cleanName), "must start with a letter")
    \o Rule(~ENDS_WITH_LETTER_OR_NUMBER(cleanName), "must end with a letter or number")

DomainNameErrors(name) ==
    IF Len(name) = 0 THEN <<"empty">>
    ELSE CleanNameErrors(ReplaceFirst(ToLowerCase(name), TLD, << >>))

ValidateDomainName(name) ==
    [valid |-> Len(DomainNameErrors(name)) = 0, errors |-> DomainNameErrors(name)]

(* validateYears(years), years an integer *)
ValidateYears(years) == years > 0 /\ years <= MAX_REGISTRATION_YEARS

(* The cache key generators *)
GenerateAvailabilityCacheKey(domain) == <<"availability:">> \o ToLowerCase(domain)

GenerateResolutionCacheKey(domain) == <<"resolution:">> \o ToLowerCase(domain)

GeneratePricingCacheKey(domain, years) ==
    <<"pricing:">> \o ToLowerCase(domain) \o <<":", ToString(years)>>

RenewalCacheKey(domain, years) == <<"renewal_">> \o GeneratePricingCacheKey(domain, years)

(* The keys under which the read operations cache what they fetch for name *)
ReadKeys(name) ==
    [availability |-> GenerateAvailabilityCacheKey(NormalizeDomainName(name)),
     resolution |-> GenerateResolutionCacheKey(NormalizeDomainName(name)),
     pricing |-> [years \in 1 .. MAX_REGISTRATION_YEARS |->
                     GeneratePricingCacheKey(NormalizeDomainName(name), years)]]

(* The strings of length n over the characters of C *)
RECURSIVE StringsOfLen(_, _)
StringsOfLen(C, n) ==
    IF n = 0 THEN {<< >>}
    ELSE {Append(s, c) : s \in StringsOfLen(C, n - 1), c \in C}

LabelChars == {"a", "s", ".", "-"}

(* Two longer names: 'alice', and one that holds the TLD before its end *)
Alice == <<"a", "l", "i", "c", "e">>

(* The string of n characters c *)
Repeat(c, n) == [k \in 1 .. n |-> c]

(* Names at and past the longest length allowed, and names with a digit or
   with a leading hyphen *)
LongNames == {Repeat("a", MAX_LENGTH), Repeat("a", MAX_LENGTH + 1)}

DigitNames == {<<"a", "b", "1">>, <<"1", "a", "b">>, <<"-", "a", "b">>}

Samples == {Alice, <<"a", ".", "s", "a", "s">>} \cup LongNames \cup DigitNames

Labels == UNION {StringsOfLen(LabelChars, n) : n \in 0 .. MaxNameLen} \cup Samples

Applied(fn, arg, result) == [fn |-> fn, arg |-> arg, result |-> result]

NotApplied == Applied("none", << >>, << >>)

InitNames ==
    /\ label \in Labels
    /\ spelling = label
    /\ out = NotApplied
    /\ yearCount = 0

InitNamesIdle ==
    /\ label = << >>
    /\ spelling = << >>
    /\ out = NotApplied
    /\ yearCount = 0

(* The same name with the case of its k-th character changed *)
ChangeCase(k) ==
    /\ k \in 1 .. Len(spelling)
    /\ IsLower(spelling[k]) \/ IsUpper(spelling[k])
    /\ spelling' = [spelling EXCEPT ![k] = IF IsLower(@) THEN UpperChar(@) ELSE LowerChar(@)]
    /\ out' = NotApplied
    /\ UNCHANGED <<label, yearCount>>
    /\ UNCHANGED <<cacheVars, retryVars, snsVars, moreVars>>

(* The same name with the TLD appended *)
AppendTLD ==
    /\ Len(spelling) = Len(label)
    /\ spelling' = spelling \o TLD
    /\ out' = NotApplied
    /\ UNCHANGED <<label, yearCount>>
    /\ UNCHANGED <<cacheVars, retryVars, snsVars, moreVars>>

Normalize ==
    /\ out' = Applied("normalizeDomainName", spelling, NormalizeDomainName(spelling))
    /\ UNCHANGED <<label, spelling, yearCount>>
    /\ UNCHANGED <<cacheVars, retryVars, snsVars, moreVars>>

(* normalizeDomainName applied to what it has just returned *)
NormalizeAgain ==
    /\ out.fn = "normalizeDomainName"
    /\ out' = Applied("normalizeDomainName", out.result, NormalizeDomainName(out.result))
    /\ UNCHANGED <<label, spelling, yearCount>>
    /\ UNCHANGED <<cacheVars, retryVars, snsVars, moreVars>>

Validate ==
    /\ out' = Applied("validateDomainName", spelling, ValidateDomainName(spelling))
    /\ UNCHANGED <<label, spelling, yearCount>>
    /\ UNCHANGED <<cacheVars, retryVars, snsVars, moreVars>>

GenerateKeys ==
    /\ out' = Applied("generateCacheKeys", spelling, ReadKeys(spelling))
    /\ UNCHANGED <<label, spelling, yearCount>>
    /\ UNCHANGED <<cacheVars, retryVars, snsVars, moreVars>>

NextNames ==
    \/ \E k \in 1 .. MaxNameLen + Len(TLD) : ChangeCase(k)
    \/ AppendTLD
    \/ Normalize
    \/ NormalizeAgain
    \/ Validate
    \/ GenerateKeys

----------------------------------------------------------------------------
(* Pricing.  An amount of wei is a bigint, which has no upper limit; the model
   counts amounts in units of 10^14 wei, of which every price of PRICING is a
   whole number, so that the products below stay within TLC's integers. *)

MaxPricedLen == 8
MaxYears == 7

THREECHAR == 150000
FOURCHAR == 100000
FIVECHAR == 75000
SIXPLUSCHAR == 50000
BPS_DENOMINATOR == 10000

DISCOUNT_TIERS ==
    <<[yearCount |-> 2, discount |-> 500], [yearCount |-> 3, discount |-> 1000],
      [yearCount |-> 4, discount |-> 1500], [yearCount |-> 5, discount |-> 2000]>>

(* Mutant of CalculateBasePrice: every length from 5 on pays the 5-character price *)
CalculateBasePriceFiveUp(domainName) ==
    IF Len(domainName) = 3 THEN THREECHAR
    ELSE IF Len(domainName) = 4 THEN FOURCHAR
    ELSE IF Len(domainName) >= 5 THEN FIVECHAR
    ELSE SIXPLUSCHAR

(* calculateBasePrice(domainName) *)
CalculateBasePrice(domainName) ==
    IF Len(domainName) = 3 THEN THREECHAR
    ELSE IF Len(domainName) = 4 THEN FOURCHAR
    ELSE IF Len(domainName) = 5 THEN FIVECHAR
    ELSE SIXPLUSCHAR

(* Array.prototype.find on DISCOUNT_TIERS: the indices of the tiers found *)
TiersFound(years) == {n \in 1 .. Len(DISCOUNT_TIERS) : DISCOUNT_TIERS[n].yearCount = years}

(* Mutant of GetDiscount: the first tier of at least that many years *)
GetDiscountAtLeast(years) ==
    IF \E n \in 1 .. Len(DISCOUNT_TIERS) : DISCOUNT_TIERS[n].yearCount >= years
    THEN DISCOUNT_TIERS[First({n \in 1 .. Len(DISCOUNT_TIERS) :
                                   DISCOUNT_TIERS[n].yearCount >= years})].discount
    ELSE 0

(* getDiscount(years) *)
GetDiscount(years) ==
    IF TiersFound(years) = {} THEN 0 ELSE DISCOUNT_TIERS[First(TiersFound(years))].discount

PriceOf(basePrice, totalBasePrice, discount, discountAmount, finalPrice) ==
    [basePrice |-> basePrice, totalBasePrice |-> totalBasePrice, discount |-> discount,
     discountAmount |-> discountAmount, finalPrice |-> finalPrice]

(* Mutant of CalculatePrice: the discount is taken on the price of one year *)
CalculatePriceDiscountOnBase(domainName, years) ==
    LET basePrice == CalculateBasePrice(domainName)
        totalBasePrice == basePrice * years
        discount == GetDiscount(years)
        discountAmount == (basePrice * discount) \div BPS_DENOMINATOR
    IN  PriceOf(basePrice, totalBasePrice, discount, discountAmount,
                totalBasePrice - discountAmount)

(* calculatePrice(domainName, years); the division of bigints truncates *)
CalculatePrice(domainName, years) ==
    LET basePrice == CalculateBasePrice(domainName)
        totalBasePrice == basePrice * years
        discount == GetDiscount(years)
        discountAmount == (totalBasePrice * discount) \div BPS_DENOMINATOR
    IN  IF discount = 0
        THEN PriceOf(basePrice, totalBasePrice, 0, 0, totalBasePrice)
        ELSE PriceOf(basePrice, totalBasePrice, discount, discountAmount,
                     totalBasePrice - discountAmount)

(* The names priced: one of each length *)
PricedNames == {Repeat("a", n) : n \in 0 .. MaxPricedLen}

InitPricing ==
    /\ label \in PricedNames
    /\ spelling = label
    /\ out = NotApplied
    /\ yearCount \in 0 .. MaxYears

BasePrice ==
    /\ out' = Applied("calculateBasePrice", label, CalculateBasePrice(label))
    /\ UNCHANGED <<label, spelling, yearCount>>
    /\ UNCHANGED <<cacheVars, retryVars, snsVars, moreVars>>

Discount ==
    /\ out' = Applied("getDiscount", yearCount, GetDiscount(yearCount))
    /\ UNCHANGED <<label, spelling, yearCount>>
    /\ UNCHANGED <<cacheVars, retryVars, snsVars, moreVars>>

Price ==
    /\ out' = Applied("calculatePrice", <<label, yearCount>>, CalculatePrice(label, yearCount))
    /\ UNCHANGED <<label, spelling, yearCount>>
    /\ UNCHANGED <<cacheVars, retryVars, snsVars, moreVars>>

NextPricing ==
    \/ BasePrice
    \/ Discount
    \/ Price

----------------------------------------------------------------------------
(* class SNS over SonicRegistry, SonicRegistrar and SonicResolver.  Each of the
   three components owns a Cache; the three are constructed with the same
   default TTL and capacity, which are the variables defaultTTL and maxEntries,
   and share the clock now.  One read is in progress at a time: its
   retryWithBackoff call runs in the variables of retryWithBackoff above.  An
   error is a string; a NetworkError is written as its class followed by the
   error it carries as details. *)

DEFAULT_ATTEMPTS == 3
DEFAULT_DELAY == 1000
MAX_ENTRIES == 1000
DEFAULT_CACHE_TTL == 5 * 60 * 1000
DEFAULT_RETRY_ATTEMPTS == 3
DEFAULT_RETRY_DELAY == 1000
AVAILABILITY_TTL == 30 * 1000
PRICING_TTL == 30 * 60 * 1000

Components == {"registry", "registrar", "resolver"}

ReadKinds == {"availability", "pricing", "resolution"}

(* The config objects handed to new SNS(config): a field left out is undefined *)
SNSConfigs ==
    { [provider |-> "provider"],
      [provider |-> "provider", cacheTTL |-> 30 * 1000],
      [provider |-> "provider", cacheEnabled |-> FALSE,
       retryAttempts |-> 5, retryDelay |-> 500] }

(* config.field || fallback, for a number *)
OrElse(config, field, fallback) ==
    IF field \in DOMAIN config /\ config[field] # 0 THEN config[field] ELSE fallback

(* The defaults the constructor of SNS sets *)
Configure(config) ==
    [cacheEnabled |-> IF "cacheEnabled" \in DOMAIN config THEN config.cacheEnabled ELSE TRUE,
     cacheTTL |-> OrElse(config, "cacheTTL", DEFAULT_CACHE_TTL),
     retryAttempts |-> OrElse(config, "retryAttempts", DEFAULT_RETRY_ATTEMPTS),
     retryDelay |-> OrElse(config, "retryDelay", DEFAULT_RETRY_DELAY)]

(* cacheEnabled ? new Cache(cacheTTL) : new Cache(0) *)
ComponentDefaultTTL(c) == IF c.cacheEnabled THEN c.cacheTTL ELSE 0

(* The names the operations are called with, and the years *)
Names == {<<"a", "b", "c">>, <<"A", "b", "c", ".", "s">>, <<"a", "b">>}
Years == {0, 1}

(* What the remote calls return, and the errors they throw *)
RemoteResults == {"r1"}
TransientErrors == {"e1", "e2"}
DomainNotFoundError == "DomainNotFoundError"
ValidationError == "ValidationError"

(* Mutant of NetworkError: the cause is dropped *)
NetworkErrorBare(error) == "NetworkError: "

(* new NetworkError(message, error) *)
NetworkError(error) == "NetworkError: " \o error

(* The component whose cache a read uses *)
CacheOf(kind) ==
    CASE kind = "availability" -> "registry"
      [] kind = "pricing" -> "registrar"
      [] kind = "resolution" -> "resolver"

(* Mutant of TTLArgOf: every read caches for 30 seconds *)
TTLArgOfShort(kind) == AVAILABILITY_TTL

(* The ttl argument of the cache.set of a read: none in resolve *)
TTLArgOf(kind) ==
    CASE kind = "availability" -> AVAILABILITY_TTL
      [] kind = "pricing" -> PRICING_TTL
      [] kind = "resolution" -> Undefined

KeyOf(kind, domain, years) ==
    CASE kind = "availability" -> GenerateAvailabilityCacheKey(domain)
      [] kind = "pricing" -> GeneratePricingCacheKey(domain, years)
      [] kind = "resolution" -> GenerateResolutionCacheKey(domain)

(* What the operation checks before it looks into the cache: SNS.isAvailable,
   SNS.getPrice and SNS.resolve validate the name, getPrice the years too *)
Accepts(kind, name, years) ==
    /\ ValidateDomainName(name).valid
    /\ kind = "pricing" => ValidateYears(years)

(* catch (error) of a read: resolve rethrows DomainNotFoundError as it is *)
Translate(kind, error) ==
    IF kind = "resolution" /\ error = DomainNotFoundError THEN error
    ELSE NetworkError(error)

(* SonicRegistrar.clearDomainCache: the pricing and renewal keys of 1 to 5 years *)
RECURSIVE ClearPricingFrom(_, _, _)
ClearPricingFrom(s, domain, years) ==
    IF years > 5 THEN s
    ELSE ClearPricingFrom(
             MapDelete(MapDelete(s, GeneratePricingCacheKey(domain, years)),
                       RenewalCacheKey(domain, years)),
             domain, years + 1)

(* Mutant of RegistrarClearDomainCache: the whole cache is cleared *)
RegistrarClearDomainCacheAll(s, domain) == << >>

RegistrarClearDomainCache(s, domain) ==
    ClearPricingFrom(s, NormalizeDomainName(domain), 1)

NoRead == [kind |-> "none", key |-> << >>]

(* A completed operation: where its answer came from, the answer, and how many
   times it invoked its remote call *)
Reply(operation, source, result, remote) ==
    [op |-> operation, source |-> source, result |-> result, remote |-> remote]

(* The instants at which the clock is read *)
Instants ==
    {0, AVAILABILITY_TTL, AVAILABILITY_TTL + 1, DEFAULT_CACHE_TTL + 1, PRICING_TTL + 1}

(* No write has been invoked yet *)
NoInvocation ==
    [op |-> "none", name |-> << >>, years |-> 0, address |-> << >>, key |-> << >>,
     chain |-> [for |-> "none"], remote |-> << >>, result |-> Pending]

InitSNS ==
    /\ invocation = NoInvocation
    /\ cfg \in {Configure(config) : config \in SNSConfigs}
    /\ caches = [c \in Components |-> << >>]
    /\ inflight = NoRead
    /\ reply = Reply("new", "none", Resolution(Null), 0)
    /\ store = << >>
    /\ cleanupInterval = TimerOn
    /\ timerLive = TRUE
    /\ defaultTTL = ComponentDefaultTTL(cfg)
    /\ maxEntries = MAX_ENTRIES
    /\ now = 0
    /\ ret = Call("none", "", Null, Undefined, Null, Null, 0)

InitSNSIdle ==
    /\ invocation = NoInvocation
    /\ cfg = Configure([provider |-> "provider"])
    /\ caches = [c \in Components |-> << >>]
    /\ inflight = NoRead
    /\ reply = Reply("none", "none", Resolution(Null), 0)

(* isAvailable, getPrice, resolve up to the call of retryWithBackoff(fn): the
   validation, the key, the look into the cache *)
Begin(kind, name, years) ==
    /\ pc = "idle"
    /\ IF ~Accepts(kind, name, years)
       THEN /\ reply' = Reply(kind, "none", Rejection(ValidationError), 0)
            /\ UNCHANGED <<caches, inflight, retryVars>>
       ELSE LET key == KeyOf(kind, NormalizeDomainName(name), years)
                cached == GetResult(caches[CacheOf(kind)], key)
            IN  /\ caches' = [caches EXCEPT ![CacheOf(kind)] = StoreAfterGet(@, key)]
                /\ IF cached # Null
                   THEN /\ reply' = Reply(kind, "cache", Resolution(cached), 0)
                        /\ UNCHANGED <<inflight, retryVars>>
                   ELSE /\ inflight' = [kind |-> kind, key |-> key]
                        /\ pc' = "loop"
                        /\ attempts' = DEFAULT_ATTEMPTS
                        /\ delay' = DEFAULT_DELAY
                        /\ reply' = Reply(kind, "pending", Pending, 0)
                        /\ UNCHANGED <<i, lastError, calls, thrown, sleeps, outcome>>
    /\ UNCHANGED <<cfg, invocation, cacheVars, nameVars, moreVars>>

(* fn of a read: the remote calls succeed, the result is cached and returned *)
RemoteResolves(v) ==
    /\ pc = "call"
    /\ inflight # NoRead
    /\ caches' = [caches EXCEPT ![CacheOf(inflight.kind)] =
                      StoreAfterSet(@, inflight.key, v, TTLArgOf(inflight.kind))]
    /\ calls' = calls + 1
    /\ pc' = "resolved"
    /\ outcome' = Resolution(v)
    /\ UNCHANGED <<attempts, delay, i, lastError, thrown, sleeps>>
    /\ UNCHANGED <<cfg, invocation, inflight, reply, cacheVars, nameVars, moreVars>>

(* fn of resolve: the registry holds no token for the name *)
DomainNotFound ==
    /\ inflight.kind = "resolution"
    /\ FnRejects(DomainNotFoundError)

(* The call of retryWithBackoff is over: its locals are gone *)
RetryOver ==
    /\ pc' = "idle"
    /\ attempts' = 0
    /\ delay' = 0
    /\ i' = 0
    /\ lastError' = "undefined"
    /\ calls' = 0
    /\ thrown' = << >>
    /\ sleeps' = << >>
    /\ outcome' = Pending

(* The read returns what retryWithBackoff resolved with *)
ReadReturn ==
    /\ pc = "resolved"
    /\ inflight # NoRead
    /\ reply' = Reply(inflight.kind, "remote", outcome, calls)
    /\ inflight' = NoRead
    /\ RetryOver
    /\ UNCHANGED <<cfg, invocation, caches, cacheVars, nameVars, moreVars>>

(* The read catches what retryWithBackoff rejected with *)
ReadCatch ==
    /\ pc = "rejected"
    /\ inflight # NoRead
    /\ reply' = Reply(inflight.kind, "remote",
                      Rejection(Translate(inflight.kind, outcome.value)), calls)
    /\ inflight' = NoRead
    /\ RetryOver
    /\ UNCHANGED <<cfg, invocation, caches, cacheVars, nameVars, moreVars>>

(* SNS.register, the transaction succeeding: the price its getPrice may have
   cached is among the keys clearDomainCache deletes *)
Register(name, years) ==
    /\ pc = "idle"
    /\ Accepts("pricing", name, years)
    /\ caches' = [caches EXCEPT !["registrar"] = RegistrarClearDomainCache(@, name)]
    /\ reply' = Reply("register", "remote", Resolution("tx.hash"), 0)
    /\ UNCHANGED <<cfg, invocation, inflight, cacheVars, retryVars, nameVars, moreVars>>

(* SNS.renew, the transaction succeeding *)
Renew(name, years) ==
    /\ pc = "idle"
    /\ Accepts("pricing", name, years)
    /\ caches' = [caches EXCEPT !["registrar"] = RegistrarClearDomainCache(@, name)]
    /\ reply' = Reply("renew", "remote", Resolution("tx.hash"), 0)
    /\ UNCHANGED <<cfg, invocation, inflight, cacheVars, retryVars, nameVars, moreVars>>

(* SNS.setAddress, the transaction succeeding: no cache is touched *)
SetAddress(name) ==
    /\ pc = "idle"
    /\ ValidateDomainName(name).valid
    /\ reply' = Reply("setAddress", "remote", Resolution("tx.hash"), 0)
    /\ UNCHANGED <<cfg, invocation, caches, inflight, cacheVars, retryVars, nameVars, moreVars>>

(* SNS.clearCache *)
ClearCache ==
    /\ pc = "idle"
    /\ caches' = [c \in Components |-> << >>]
    /\ reply' = Reply("clearCache", "none", Resolution(Null), 0)
    /\ UNCHANGED <<cfg, invocation, inflight, cacheVars, retryVars, nameVars, moreVars>>

(* The sweep timer of the cache of component c fires *)
SweepOf(c) ==
    /\ caches' = [caches EXCEPT ![c] = StoreAfterCleanup(@)]
    /\ UNCHANGED <<cfg, invocation, inflight, reply, cacheVars, retryVars, nameVars, moreVars>>

(* Time passes, between operations and while a read is in progress *)
Elapse(t) ==
    /\ t > now
    /\ now' = t
    /\ UNCHANGED <<store, cleanupInterval, timerLive, defaultTTL, maxEntries, ret>>
    /\ UNCHANGED <<retryVars, nameVars, snsVars, moreVars>>

NextSNS ==
    \/ \E kind \in ReadKinds, name \in Names, years \in Years : Begin(kind, name, years)
    \/ LoopEnter
    \/ \E v \in RemoteResults : RemoteResolves(v)
    \/ \E e \in TransientErrors : FnRejects(e)
    \/ DomainNotFound
    \/ SleepDone
    \/ ReadReturn
    \/ ReadCatch
    \/ \E name \in Names, years \in Years : Register(name, years)
    \/ \E name \in Names, years \in Years : Renew(name, years)
    \/ \E name \in Names : SetAddress(name)
    \/ ClearCache
    \/ \E c \in Components : SweepOf(c)
    \/ \E t \in Instants : Elapse(t)

----------------------------------------------------------------------------
(* The writes of the facade, and its batch read.  A write is one action: the
   handler from its validation to its return or its catch.  The answers the
   chain gives are its state, chosen at the start.  Its remote calls are listed
   in the order they are issued: a read counts once, with the retries
   retryWithBackoff makes for it; "tx" is the submission of the transaction.
   An error message is a sequence of phrases. *)

MaxPhrases == 2

ADDRESS_DIGITS == 40

PermissionError == "PermissionError"
DomainUnavailableError == "DomainUnavailableError"
InsufficientPaymentError == "InsufficientPaymentError"
NetworkErrorKind == "NetworkError"

HexDigits == Digits \cup {"a", "b", "c", "d", "e", "f", "A", "B", "C", "D", "E", "F"}

(* validateAddress(address).valid *)
ValidateAddress(address) ==
    /\ Len(address) > 0
    /\ Len(address) = 2 + ADDRESS_DIGITS
    /\ address[1] = "0"
    /\ address[2] = "x"
    /\ \A n \in 3 .. Len(address) : address[n] \in HexDigits

AddressOf(c) == <<"0", "x">> \o Repeat(c, ADDRESS_DIGITS)

(* Addresses of accounts: two spellings of one account, and another account *)
Accounts == {AddressOf("a"), AddressOf("A"), AddressOf("b")}

(* The address argument of setAddress *)
Addresses ==
    {AddressOf("c"), AddressOf("g"), <<"0", "x">> \o Repeat("c", ADDRESS_DIGITS - 1), << >>}

(* The writes that check the owner: those of SNS on the resolver contract,
   those of SonicRegistry that SNS passes on, and SonicRegistry.setResolver *)
RecordWrites ==
    {"setAddress", "setContent", "setText", "setReverse", "setContenthash",
     "setTextBatch", "setPrimaryName"}

RegistryWrites == {"setCustomImage", "clearCustomImage"}

OwnedWrites == RecordWrites \cup RegistryWrites \cup {"setResolver"}

(* What registry.getTokenId and registry.getOwner end with *)
LookupOutcomes == {"ok", DomainNotFoundError, NetworkError("e1")}

(* The answers of the chain to a write that checks the owner *)
OwnedChains ==
    [for : {"owned"}, getTokenId : LookupOutcomes, getOwner : LookupOutcomes,
     owner : Accounts, signerAddress : Accounts, submission : {"ok", "e1"}]

(* Mutant of SameAccount: the owner is not compared with the signer *)
OwnerCheckSkipped(owner, signerAddress) == TRUE

(* owner.toLowerCase() === signerAddress.toLowerCase() *)
SameAccount(owner, signerAddress) == ToLowerCase(owner) = ToLowerCase(signerAddress)

(* Mutant of Submitted: a submission that failed is made again, as a read is *)
SubmittedWithRetry(failed) == IF failed THEN <<"tx", "tx", "tx">> ELSE <<"tx">>

(* await contractWithSigner.<method>(...): called once, outside retryWithBackoff *)
Submitted(failed) == <<"tx">>

(* catch (error) of a write that checks the owner *)
WriteCatch(op, error) ==
    IF op \in RecordWrites
    THEN IF error \in {ValidationError, PermissionError} THEN error ELSE NetworkError(error)
    ELSE IF error \in {DomainNotFoundError, PermissionError} THEN error
         ELSE NetworkError(error)

Ran(remote, result) == [remote |-> remote, result |-> result]

(* validateTextKey of validation.ts *)
MAX_TEXT_KEY_LENGTH == 64

TextKeyErrors(key) ==
    IF key = << >>
    THEN <<"Text record key must be a non-empty string">>
    ELSE (IF Len(key) > MAX_TEXT_KEY_LENGTH
          THEN <<"Text record key cannot exceed 64 characters">> ELSE << >>)
         \o (IF \A n \in 1 .. Len(key) :
                    key[n] \in LowerLetters \cup UpperLetters \cup Digits \cup {".", "-"}
              THEN << >>
              ELSE <<"Text record key can only contain letters, numbers, dots, and hyphens">>)

ValidateTextKey(key) ==
    [valid |-> TextKeyErrors(key) = << >>, errors |-> TextKeyErrors(key)]

(* The writes that take the key of a text record, and the keys given *)
TextWrites == {"setText", "setTextBatch"}

TextKeys ==
    {<< >>, <<"a", ".", "B", "-", "1">>, <<"a", " ">>,
     Repeat("a", MAX_TEXT_KEY_LENGTH), Repeat("a", MAX_TEXT_KEY_LENGTH + 1)}

(* setAddress, setContent, ..., setCustomImage, clearCustomImage of SNS and
   setResolver of SonicRegistry: what is issued and what comes back.  setText
   and setTextBatch do not look at the key they are given. *)
OwnedWriteRun(op, name, address, chain) ==
    IF op # "setResolver" /\ ~ValidateDomainName(name).valid
    THEN Ran(<< >>, Rejection(ValidationError))
    ELSE IF op = "setAddress" /\ ~ValidateAddress(address)
    THEN Ran(<< >>, Rejection(ValidationError))
    ELSE IF chain.getTokenId # "ok"
    THEN Ran(<<"getTokenId">>, Rejection(WriteCatch(op, chain.getTokenId)))
    ELSE IF chain.getOwner # "ok"
    THEN Ran(<<"getTokenId", "getOwner">>, Rejection(WriteCatch(op, chain.getOwner)))
    ELSE IF ~SameAccount(chain.owner, chain.signerAddress)
    THEN Ran(<<"getTokenId", "getOwner">>, Rejection(WriteCatch(op, PermissionError)))
    ELSE IF chain.submission # "ok"
    THEN Ran(<<"getTokenId", "getOwner">> \o Submitted(TRUE),
             Rejection(WriteCatch(op, chain.submission)))
    ELSE Ran(<<"getTokenId", "getOwner">> \o Submitted(FALSE), Resolution("tx.hash"))

(* The phrases of the messages of the errors the chain answers with *)
Phrases ==
    {"Name taken", "Incorrect payment", "Invalid name", "Domain not found",
     "name taken", "timeout"}

Messages == UNION {StringsOfLen(Phrases, n) : n \in 1 .. MaxPhrases}

(* The errors a remote call rejects with: with a message, or without one *)
ChainErrors == {[message |-> m] : m \in Messages} \cup {[code |-> "UNKNOWN_ERROR"]}

(* `${error.message}` *)
MessageText(error) == IF "message" \in DOMAIN error THEN error.message ELSE <<"undefined">>

(* error.message?.includes(phrase) *)
Includes(error, phrase) ==
    /\ "message" \in DOMAIN error
    /\ \E n \in 1 .. Len(error.message) : error.message[n] = phrase

(* catch (error) of SonicRegistrar.getPrice and getRenewalPrice: the error
   register and renew get when the quote fails *)
QuoteError(op, error) ==
    IF op = "renew" /\ Includes(error, "Domain not found")
    THEN [message |-> <<"Domain '", "' is not available", ": ", "not found">>]
    ELSE [message |-> <<"Failed to get price for ">> \o MessageText(error)]

(* Mutant of RegisterCatch: 'Invalid name' is not looked for *)
RegisterCatchNoInvalidName(error) ==
    IF Includes(error, "Name taken") THEN DomainUnavailableError
    ELSE IF Includes(error, "Incorrect payment") THEN InsufficientPaymentError
    ELSE NetworkErrorKind

(* catch (error) of SonicRegistrar.register: the class of the error thrown *)
RegisterCatch(error) ==
    IF Includes(error, "Name taken") THEN DomainUnavailableError
    ELSE IF Includes(error, "Incorrect payment") THEN InsufficientPaymentError
    ELSE IF Includes(error, "Invalid name") THEN ValidationError
    ELSE NetworkErrorKind

(* catch (error) of SonicRegistrar.renew *)
RenewCatch(error) ==
    IF Includes(error, "Domain not found") THEN DomainUnavailableError
    ELSE IF Includes(error, "Incorrect payment") THEN InsufficientPaymentError
    ELSE NetworkErrorKind

RegistrationCatch(op, error) ==
    IF op = "register" THEN RegisterCatch(error) ELSE RenewCatch(error)

(* The answers of the chain to register and renew: all well, or the quote or
   the transaction failing with an error *)
RegistrationChains ==
    {[for |-> "registration", stage |-> "none"]}
    \cup {[for |-> "registration", stage |-> stage, error |-> error] :
              stage \in {"quote", "tx"}, error \in ChainErrors}

(* The answers of the chain to the resolve of a batch *)
BatchChains == [for : {"batch"}, resolve : LookupOutcomes]

(* SNS.register and SNS.renew over SonicRegistrar.register and renew *)
RegistrationRun(op, name, years, chain) ==
    IF ~ValidateDomainName(name).valid \/ ~ValidateYears(years)
    THEN Ran(<< >>, Rejection(ValidationError))
    ELSE IF ~ValidateDomainName(NormalizeDomainName(name)).valid
    THEN Ran(<< >>, Rejection(ValidationError))
    ELSE IF chain.stage = "quote"
    THEN Ran(<<"getPrice">>, Rejection(RegistrationCatch(op, QuoteError(op, chain.error))))
    ELSE IF chain.stage = "tx"
    THEN Ran(<<"getPrice">> \o Submitted(TRUE), Rejection(RegistrationCatch(op, chain.error)))
    ELSE Ran(<<"getPrice">> \o Submitted(FALSE), Resolution("tx.hash"))

(* SNS.resolveBatch([name]) over SonicResolver.resolveBatch and resolve: the
   name goes to resolve as it is, and what resolve rejects with is reported in
   failed *)
ResolveBatchRun(name, lookup) ==
    Ran(<<"resolve">>,
        Resolution(IF lookup = "ok" THEN "successful" ELSE "failed: " \o lookup))

Invoked(op, name, years, address, chain, run) ==
    [op |-> op, name |-> name, years |-> years, address |-> address, key |-> << >>,
     chain |-> chain, remote |-> run.remote, result |-> run.result]

(* SonicRegistry.clearDomainCache *)
RegistryClearDomainCache(s, domain) ==
    MapDelete(s, GenerateAvailabilityCacheKey(NormalizeDomainName(domain)))

InitFacade ==
    /\ invocation \in {[NoInvocation EXCEPT !.chain = chain] :
                          chain \in OwnedChains \cup RegistrationChains \cup BatchChains}
    /\ cfg = Configure([provider |-> "provider"])
    /\ caches = [c \in Components |-> << >>]
    /\ inflight = NoRead
    /\ reply = Reply("none", "none", Resolution(Null), 0)

OwnedWrite(op, name, address) ==
    /\ pc = "idle"
    /\ invocation.chain.for = "owned"
    /\ op = "setAddress" \/ address = << >>
    /\ invocation' = Invoked(op, name, 0, address, invocation.chain,
                             OwnedWriteRun(op, name, address, invocation.chain))
    /\ caches' = IF op \notin RecordWrites
                    /\ OwnedWriteRun(op, name, address, invocation.chain).result.kind
                           = "resolved"
                 THEN [caches EXCEPT !["registry"] = RegistryClearDomainCache(@, name)]
                 ELSE caches
    /\ UNCHANGED <<cfg, inflight, reply, cacheVars, retryVars, nameVars, moreVars>>

(* SNS.setText(domain, key, value, signer) and SNS.setTextBatch(domain,
   records, signer) with one record under key *)
TextWrite(op, name, key) ==
    /\ pc = "idle"
    /\ invocation.chain.for = "owned"
    /\ invocation' = [Invoked(op, name, 0, << >>, invocation.chain,
                              OwnedWriteRun(op, name, << >>, invocation.chain))
                          EXCEPT !.key = key]
    /\ UNCHANGED <<cfg, caches, inflight, reply, cacheVars, retryVars, nameVars, moreVars>>

Registration(op, name, years) ==
    /\ pc = "idle"
    /\ invocation.chain.for = "registration"
    /\ invocation' = Invoked(op, name, years, << >>, invocation.chain,
                             RegistrationRun(op, name, years, invocation.chain))
    /\ caches' = IF RegistrationRun(op, name, years, invocation.chain).result.kind
                        = "resolved"
                 THEN [caches EXCEPT !["registrar"] = RegistrarClearDomainCache(@, name)]
                 ELSE caches
    /\ UNCHANGED <<cfg, inflight, reply, cacheVars, retryVars, nameVars, moreVars>>

ResolveBatch(name) ==
    /\ pc = "idle"
    /\ invocation.chain.for = "batch"
    /\ invocation' = Invoked("resolveBatch", name, 0, << >>, invocation.chain,
                             ResolveBatchRun(name, invocation.chain.resolve))
    /\ UNCHANGED <<cfg, caches, inflight, reply, cacheVars, retryVars, nameVars, moreVars>>

NextFacade ==
    \/ \E op \in OwnedWrites \ TextWrites, name \in Names,
           address \in Addresses \cup {<< >>} :
           OwnedWrite(op, name, address)
    \/ \E op \in TextWrites, name \in Names, key \in TextKeys : TextWrite(op, name, key)
    \/ \E op \in {"register", "renew"}, name \in Names, years \in Years :
           Registration(op, name, years)
    \/ \E name \in Names : ResolveBatch(name)

----------------------------------------------------------------------------
(* chunkArray of src/unnamed/part_002 and SNS.resolveBatch over it.  The
   variable batch is one resolveBatch(domains, chunkSize) call: the loop of
   chunkArray, one iteration a step, then the loop over the chunks, one chunk a
   step.  The answer resolve gives for each domain is fixed at the start. *)

MaxBatch == 3          \* domains.length is at most this
MaxChunkSize == 2      \* chunkSize ranges over -1 .. MaxChunkSize
MaxIterations == MaxBatch + 1   \* iterations of the chunkArray loop followed

BatchDomains == {"x.s", "y.s"}
ChunkSizes == -1 .. MaxChunkSize

(* Array.prototype.slice(start, end): a negative index counts from the end,
   and both indices are clamped to the array *)
SliceIndex(n, length) ==
    IF n < 0 THEN (IF length + n < 0 THEN 0 ELSE length + n)
    ELSE IF n > length THEN length ELSE n

Slice(array, start, end) ==
    IF SliceIndex(start, Len(array)) < SliceIndex(end, Len(array))
    THEN SubSeq(array, SliceIndex(start, Len(array)) + 1, SliceIndex(end, Len(array)))
    ELSE << >>

(* SonicResolver.resolveBatch(chunk): one entry per domain of the chunk, in
   order, holding the result of resolve or the message of what it threw *)
ResolverResolveBatch(chunk, resolve) ==
    [n \in 1 .. Len(chunk) |->
        IF resolve[chunk[n]] = "ok"
        THEN [domain |-> chunk[n], result |-> "result", error |-> ""]
        ELSE [domain |-> chunk[n], result |-> "", error |-> resolve[chunk[n]]]]

(* The inner loop of SNS.resolveBatch: the entries with a result, and those
   without a result and with an error *)
SuccessfulOf(results) ==
    [n \in 1 .. Len(SelectSeq(results, LAMBDA r : r.result # "")) |->
        [input |-> SelectSeq(results, LAMBDA r : r.result # "")[n].domain,
         result |-> SelectSeq(results, LAMBDA r : r.result # "")[n].result]]

FailedOf(results) ==
    [n \in 1 .. Len(SelectSeq(results, LAMBDA r : r.result = "" /\ r.error # "")) |->
        [input |-> SelectSeq(results, LAMBDA r : r.result = "" /\ r.error # "")[n].domain,
         error |-> SelectSeq(results, LAMBDA r : r.result = "" /\ r.error # "")[n].error]]

NoBatch == [pc |-> "none"]

BatchCall(domains, chunkSize, resolve) ==
    [pc |-> "chunkArray", array |-> domains, chunkSize |-> chunkSize, resolve |-> resolve,
     i |-> 0, odd |-> FALSE, chunks |-> << >>, chunk |-> 1,
     successful |-> << >>, failed |-> << >>]

InitBatchIdle == batch = NoBatch

InitBatch ==
    batch \in {BatchCall(domains, chunkSize, resolve) :
                  domains \in UNION {[1 .. n -> BatchDomains] : n \in 0 .. MaxBatch},
                  chunkSize \in ChunkSizes,
                  resolve \in [BatchDomains -> {"ok", DomainNotFoundError}]}

(* One iteration of the for loop of chunkArray.  A loop that exits does so
   within MaxIterations iterations; of one that goes on, the chunks pushed and
   the index are followed for MaxIterations iterations, and after that only
   the parity of the count of iterations is. *)
ChunkArrayLoop ==
    /\ batch.pc = "chunkArray"
    /\ batch.i < Len(batch.array)
    /\ batch' = IF Len(batch.chunks) < MaxIterations
                THEN [batch EXCEPT
                         !.chunks = Append(@, Slice(batch.array, batch.i,
                                                    batch.i + batch.chunkSize)),
                         !.i = @ + batch.chunkSize,
                         !.odd = ~@]
                ELSE [batch EXCEPT !.odd = ~@]
    /\ UNCHANGED <<cacheVars, retryVars, nameVars, snsVars, tasks, ledger>>

(* The loop condition fails: chunkArray returns chunks *)
ChunkArrayReturn ==
    /\ batch.pc = "chunkArray"
    /\ ~(batch.i < Len(batch.array))
    /\ batch' = [batch EXCEPT !.pc = "chunks"]
    /\ UNCHANGED <<cacheVars, retryVars, nameVars, snsVars, tasks, ledger>>

(* One iteration of for (const chunk of chunks) *)
ResolveChunk ==
    /\ batch.pc = "chunks"
    /\ batch.chunk <= Len(batch.chunks)
    /\ batch' = [batch EXCEPT
                     !.successful = @ \o SuccessfulOf(ResolverResolveBatch(
                                         batch.chunks[batch.chunk], batch.resolve)),
                     !.failed = @ \o FailedOf(ResolverResolveBatch(
                                         batch.chunks[batch.chunk], batch.resolve)),
                     !.chunk = @ + 1]
    /\ UNCHANGED <<cacheVars, retryVars, nameVars, snsVars, tasks, ledger>>

(* return { successful, failed } *)
ResolveBatchReturn ==
    /\ batch.pc = "chunks"
    /\ batch.chunk > Len(batch.chunks)
    /\ batch' = [batch EXCEPT !.pc = "returned"]
    /\ UNCHANGED <<cacheVars, retryVars, nameVars, snsVars, tasks, ledger>>

NextBatch ==
    \/ ChunkArrayLoop
    \/ ChunkArrayReturn
    \/ ResolveChunk
    \/ ResolveBatchReturn

----------------------------------------------------------------------------
(* Calls in progress at once.  Two calls are made on one SNS and run as the
   event loop runs them: a call runs until it awaits an answer of the chain,
   and goes on when the answer is delivered.  The chain evaluates a request at
   one moment and its answer is delivered at a later one, so answers may be
   delivered in another order than the requests were evaluated.  ledger counts
   the transactions the chain has taken (epoch) and lists the calls of the SNS
   in the order they completed.  What a read fetched is kept with the request that produced it
   and the epoch at which the chain evaluated it. *)

TaskIds == {"first", "second"}

ReadOps == {"getPrice", "getRenewalPrice", "isAvailable", "resolve"}
WriteOps == {"register", "renew"}

RaceNames == {<<"a", "b", "c">>, <<"A", "b", "c", ".", "s">>, <<"x", "y", "z">>}
RaceYears == {1, 2}

(* The calls made: the quotes and the writes with years, the other reads for
   one domain in its two spellings *)
RaceCalls ==
    {[op |-> op, name |-> name, years |-> years] :
        op \in {"getPrice", "getRenewalPrice"} \cup WriteOps,
        name \in RaceNames, years \in RaceYears}
    \cup {[op |-> op, name |-> name, years |-> 0] :
             op \in {"isAvailable", "resolve"},
             name \in {name \in RaceNames : NormalizeDomainName(name) = <<"a", "b", "c">>}}

(* The read a call makes: register quotes through getPrice, renew through
   getRenewalPrice *)
ReadOf(op) ==
    CASE op = "register" -> "getPrice"
      [] op = "renew" -> "getRenewalPrice"
      [] OTHER -> op

KindOf(op) ==
    CASE ReadOf(op) \in {"getPrice", "getRenewalPrice"} -> "pricing"
      [] ReadOf(op) = "isAvailable" -> "availability"
      [] ReadOf(op) = "resolve" -> "resolution"

(* The cache key of the read of a call *)
CacheKeyOf(op, name, years) ==
    IF ReadOf(op) = "getRenewalPrice"
    THEN RenewalCacheKey(NormalizeDomainName(name), years)
    ELSE KeyOf(KindOf(op), NormalizeDomainName(name), years)

(* What the chain answers to the request of a read *)
ChainAnswers(op, epoch) ==
    CASE KindOf(op) = "pricing" -> {[price |-> 1 + epoch]}
      [] KindOf(op) = "availability" ->
             {[available |-> TRUE, tokenId |-> 7, expired |-> FALSE,
               owner |-> "0xowner", expiryTime |-> 1700000000]}
             \cup [available : {FALSE}, tokenId : {0, 7}, expired : BOOLEAN,
                   owner : {"0xowner"}, expiryTime : {1700000000}]
      [] KindOf(op) = "resolution" -> {[address |-> "0xaddress"]}

(* Mutant of AvailabilityResult: the token id is not looked at *)
AvailabilityResultNoSentinel(answer) ==
    IF answer.available THEN [available |-> TRUE]
    ELSE [available |-> FALSE,
          reason |-> IF answer.expired THEN "expired" ELSE "taken",
          expiryTime |-> answer.expiryTime,
          owner |-> answer.owner]

(* The AvailabilityResult fn of isAvailable builds *)
AvailabilityResult(answer) ==
    IF answer.available THEN [available |-> TRUE]
    ELSE IF answer.tokenId = 0 THEN [available |-> TRUE]
    ELSE [available |-> FALSE,
          reason |-> IF answer.expired THEN "expired" ELSE "taken",
          expiryTime |-> answer.expiryTime,
          owner |-> answer.owner]

(* The PriceResult fn of getPrice and getRenewalPrice builds; priceInEther is
   price in another unit and is left out *)
PriceResult(domain, years, answer) ==
    [price |-> answer.price,
     basePrice |-> CalculatePrice(domain, years).basePrice,
     discount |-> CalculatePrice(domain, years).discount,
     discountAmount |-> CalculatePrice(domain, years).discountAmount]

(* The object fn of a read builds from the answer of the chain *)
FnResult(op, name, years, answer) ==
    CASE KindOf(op) = "pricing" -> PriceResult(NormalizeDomainName(name), years, answer)
      [] KindOf(op) = "availability" -> AvailabilityResult(answer)
      [] KindOf(op) = "resolution" -> answer

(* The object a read fetched, with the request it answers: the function and
   arguments asked, the attempt of retryWithBackoff that sent the request, the
   epoch of its evaluation and the call that made it *)
Fetched(result, asked, attempt, at, by) ==
    [result |-> result, asked |-> asked, attempt |-> attempt, at |-> at, by |-> by]

(* What a request threw, and the call it was thrown to *)
Thrown(error, by) == [error |-> error, by |-> by]

(* Mutant of FnCacheSet: fn caches before its await, a placeholder when the
   await throws *)
FnCacheSetAlways(s, key, ttl, outcomeOfFn) ==
    StoreAfterSet(s, key,
                  IF outcomeOfFn.kind = "resolved" THEN outcomeOfFn.value
                  ELSE Fetched([price |-> 0], << >>, 0, 0, outcomeOfFn.value.by),
                  ttl)

(* The cache after fn of a read has run: cache.set is its last statement
   before return, and is not reached when an await before it throws *)
FnCacheSet(s, key, ttl, outcomeOfFn) ==
    IF outcomeOfFn.kind = "resolved" THEN StoreAfterSet(s, key, outcomeOfFn.value, ttl) ELSE s

(* Mutant of TxValue: the price before the discount *)
TxValueBasePrice(priceResult) == priceResult.basePrice

(* { value: priceResult.price } *)
TxValue(priceResult) == priceResult.price

NoTx == [fn |-> "none"]

(* contractWithSigner.register(normalizedDomain, years, { value }) and renew *)
Tx(op, name, years, quote) ==
    [fn |-> op, domain |-> NormalizeDomainName(name), years |-> years,
     value |-> TxValue(quote.result), at |-> 0]

Task(call) ==
    [op |-> call.op, name |-> call.name, years |-> call.years, pc |-> "start",
     attempt |-> 0, heard |-> Pending, answer |-> Pending, quote |-> Pending, tx |-> NoTx,
     result |-> Pending, source |-> "none"]

InitRace ==
    /\ tasks \in {[t \in TaskIds |-> Task(pair[t])] : pair \in [TaskIds -> RaceCalls]}
    /\ ledger = [epoch |-> 0, completed |-> << >>]
    /\ invocation = NoInvocation
    /\ cfg = Configure([provider |-> "provider"])
    /\ caches = [c \in Components |-> << >>]
    /\ inflight = NoRead
    /\ reply = Reply("new", "none", Resolution(Null), 0)
    /\ store = << >>
    /\ cleanupInterval = TimerOn
    /\ timerLive = TRUE
    /\ defaultTTL = ComponentDefaultTTL(cfg)
    /\ maxEntries = MAX_ENTRIES
    /\ now = 0
    /\ ret = Call("none", "", Null, Undefined, Null, Null, 0)

InitRaceIdle ==
    /\ tasks = [t \in TaskIds |-> [pc |-> "none"]]
    /\ ledger = [epoch |-> 0, completed |-> << >>]

(* The call has its quote or its result: a read returns it, register and renew
   submit their transaction *)
Proceed(task, value, source) ==
    IF task.op \in ReadOps
    THEN [task EXCEPT !.pc = "returned", !.result = Resolution(value), !.source = source]
    ELSE [task EXCEPT !.pc = "submitting", !.quote = value, !.source = source,
                      !.tx = Tx(task.op, task.name, task.years, value)]

Completed(t, task) ==
    IF task.pc \in {"returned", "rejected"}
    THEN [ledger EXCEPT !.completed = Append(@, t)]
    ELSE ledger

(* The call up to its first await: the look into the cache; on a miss
   retryWithBackoff calls fn, which sends its request *)
TaskBegin(t) ==
    /\ tasks[t].pc = "start"
    /\ LET task == tasks[t]
           c == CacheOf(KindOf(task.op))
           key == CacheKeyOf(task.op, task.name, task.years)
           hit == MapHas(StoreAfterGet(caches[c], key), key)
           next == IF hit THEN Proceed(task, GetResult(caches[c], key), "cache")
                   ELSE [task EXCEPT !.pc = "fetching"]
       IN  /\ caches' = [caches EXCEPT ![c] = StoreAfterGet(@, key)]
           /\ tasks' = [tasks EXCEPT ![t] = next]
           /\ ledger' = Completed(t, next)
    /\ UNCHANGED <<cfg, inflight, reply, invocation, cacheVars, retryVars, nameVars, batch>>

(* The chain evaluates the request of a read and answers, or the request fails *)
ChainReads(t, fails) ==
    /\ tasks[t].pc = "fetching"
    /\ \E answer \in ChainAnswers(tasks[t].op, ledger.epoch) :
           tasks' = [tasks EXCEPT ![t].pc = "answered",
                        ![t].heard = IF fails THEN Pending ELSE Resolution(answer),
                        ![t].answer =
                            IF fails THEN Rejection(Thrown("e1", t))
                            ELSE Resolution(
                                     Fetched(FnResult(tasks[t].op, tasks[t].name,
                                                      tasks[t].years, answer),
                                             <<ReadOf(tasks[t].op),
                                               NormalizeDomainName(tasks[t].name),
                                               tasks[t].years>>,
                                             tasks[t].attempt, ledger.epoch, t))]
    /\ UNCHANGED <<ledger, caches, cfg, inflight, reply, invocation, cacheVars, retryVars, nameVars,
                   batch>>

(* The answer is delivered and fn goes on: it caches and returns what it built,
   or throws, and retryWithBackoff tries again or gives up *)
ReadContinue(t) ==
    /\ tasks[t].pc = "answered"
    /\ LET task == tasks[t]
           c == CacheOf(KindOf(task.op))
           key == CacheKeyOf(task.op, task.name, task.years)
           next == IF task.answer.kind = "resolved"
                   THEN Proceed(task, task.answer.value, "remote")
                   ELSE IF ~LastAttempt(task.attempt, DEFAULT_ATTEMPTS)
                   THEN [task EXCEPT !.pc = "fetching", !.attempt = @ + 1]
                   ELSE [task EXCEPT
                            !.pc = "rejected",
                            !.result =
                                Rejection(IF task.op \in ReadOps
                                          THEN Translate(KindOf(task.op),
                                                         task.answer.value.error)
                                          ELSE RegistrationCatch(task.op,
                                                   QuoteError(task.op,
                                                       [message |-> <<task.answer.value.error>>])))]
       IN  /\ caches' = [caches EXCEPT ![c] =
                            FnCacheSet(@, key, TTLArgOf(KindOf(task.op)), task.answer)]
           /\ tasks' = [tasks EXCEPT ![t] = next]
           /\ ledger' = Completed(t, next)
    /\ UNCHANGED <<cfg, inflight, reply, invocation, cacheVars, retryVars, nameVars, batch>>

(* The chain takes the transaction of register or renew, or refuses it *)
ChainSubmits(t, fails) ==
    /\ tasks[t].pc = "submitting"
    /\ tasks' = [tasks EXCEPT ![t].pc = "submitted",
                    ![t].answer = IF fails THEN Rejection(Thrown("e1", t))
                                  ELSE Resolution("tx.hash"),
                    ![t].tx.at = IF fails THEN 0 ELSE ledger.epoch + 1]
    /\ ledger' = IF fails THEN ledger ELSE [ledger EXCEPT !.epoch = @ + 1]
    /\ UNCHANGED <<caches, cfg, inflight, reply, invocation, cacheVars, retryVars, nameVars,
                   batch>>

(* The transaction's answer is delivered: register and renew clear the cache
   of the domain and return the hash, or catch *)
WriteContinue(t) ==
    /\ tasks[t].pc = "submitted"
    /\ LET task == tasks[t]
           next == IF task.answer.kind = "resolved"
                   THEN [task EXCEPT !.pc = "returned", !.result = task.answer]
                   ELSE [task EXCEPT
                            !.pc = "rejected",
                            !.result = Rejection(RegistrationCatch(task.op,
                                           [message |-> <<task.answer.value.error>>]))]
       IN  /\ caches' = IF task.answer.kind = "resolved"
                        THEN [caches EXCEPT !["registrar"] =
                                 RegistrarClearDomainCache(@, NormalizeDomainName(task.name))]
                        ELSE caches
           /\ tasks' = [tasks EXCEPT ![t] = next]
           /\ ledger' = Completed(t, next)
    /\ UNCHANGED <<cfg, inflight, reply, invocation, cacheVars, retryVars, nameVars, batch>>

NextRace ==
    \/ \E t \in TaskIds : TaskBegin(t)
    \/ \E t \in TaskIds, fails \in BOOLEAN : ChainReads(t, fails)
    \/ \E t \in TaskIds : ReadContinue(t)
    \/ \E t \in TaskIds, fails \in BOOLEAN : ChainSubmits(t, fails)
    \/ \E t \in TaskIds : WriteContinue(t)

----------------------------------------------------------------------------
(* The specifications *)

(* A cache alone: no retryWithBackoff call is in progress *)
InitSpecCache ==
    InitCache /\ InitRetryIdle /\ InitNamesIdle /\ InitSNSIdle /\ InitBatchIdle /\ InitRaceIdle

(* A retryWithBackoff call alone: the cache is left untouched *)
InitSpecRetry ==
    InitRetry /\ InitCacheIdle /\ InitNamesIdle /\ InitSNSIdle /\ InitBatchIdle /\ InitRaceIdle

SpecCache == InitSpecCache /\ [][NextCache]_vars

SpecRetry == InitSpecRetry /\ [][NextRetry]_vars

(* The functions on names alone *)
InitSpecNames ==
    InitNames /\ InitCacheIdle /\ InitRetryIdle /\ InitSNSIdle /\ InitBatchIdle /\ InitRaceIdle

SpecNames == InitSpecNames /\ [][NextNames]_vars

InitSpecPricing ==
    InitPricing /\ InitCacheIdle /\ InitRetryIdle /\ InitSNSIdle /\ InitBatchIdle /\ InitRaceIdle

SpecPricing == InitSpecPricing /\ [][NextPricing]_vars

(* An SNS: its reads, its writes, the sweeps of its caches and the clock *)
InitSpecSNS ==
    InitSNS /\ InitRetryIdle /\ InitNamesIdle /\ InitBatchIdle /\ InitRaceIdle

SpecSNS == InitSpecSNS /\ [][NextSNS]_vars

InitSpecFacade ==
    InitFacade /\ InitCacheIdle /\ InitRetryIdle /\ InitNamesIdle /\ InitBatchIdle /\ InitRaceIdle

SpecFacade == InitSpecFacade /\ [][NextFacade]_vars

(* A resolveBatch call alone *)
InitSpecBatch ==
    InitBatch /\ InitCacheIdle /\ InitRetryIdle /\ InitNamesIdle /\ InitSNSIdle
    /\ InitRaceIdle

SpecBatch == InitSpecBatch /\ [][NextBatch]_vars

(* A call that has begun keeps running: each step that is enabled is taken *)
SpecBatchLive == SpecBatch /\ WF_vars(NextBatch)

(* Two calls in progress at once on one SNS *)
InitSpecRace == InitRace /\ InitRetryIdle /\ InitNamesIdle /\ InitBatchIdle

SpecRace == InitSpecRace /\ [][NextRace]_vars

----------------------------------------------------------------------------
(* Properties of class Cache, checked under SpecCache.  Every call but Tick
   writes ret, and Tick alone moves the clock: a step that leaves now as it was
   and ends with ret.op = "set" is a step of set(ret'.key, ret'.value, ret'.ttl),
   and likewise for the other operations. *)

Entries(s) == {s[n] : n \in 1 .. Len(s)}

(* The entry s holds under key: used only where key is a key of s *)
EntryOf(s, key) == CHOOSE e \in Entries(s) : e.key = key

StepOf(op) == ret'.op = op /\ now' = now

(* C1: for a cache constructed with maxEntries >= 1, after any sequence of set,
   get, has, delete, clear and cleanup calls with arbitrary string keys, the
   empty string included, the store holds at most maxEntries entries. *)
C1_SizeWithinCapacity == Len(store) <= maxEntries

(* C2: when the store holds maxEntries entries, none of them expired, and set
   is called with a key the store does not hold, then afterwards exactly
   maxEntries entries are present: the first-inserted key is absent and every
   other key, the new one included, is present.  From the empty cache, the
   maxEntries + 1 sets of pairwise distinct keys end with such a step. *)
C2_OverflowStep ==
    ( /\ StepOf("set")
      /\ Len(store) = maxEntries
      /\ ~MapHas(store, ret'.key)
      /\ \A e \in Entries(store) : ~(now - e.timestamp > e.ttl) )
    => /\ Len(store') = maxEntries
       /\ MapKeys(store') = (MapKeys(store) \ {store[1].key}) \cup {ret'.key}

C2_OverflowEvictsOldest == [][C2_OverflowStep]_vars

(* C3: get(key) never returns the value of an entry with now - storedAt > ttl:
   on such an entry it returns null and the entry is gone from the store
   afterwards; on an unexpired or a missing key it leaves the store as it was,
   and a value it returns is the data of the unexpired entry under that key. *)
C3_GetStep ==
    StepOf("get") =>
        IF MapHas(store, ret'.key)
           /\ now - EntryOf(store, ret'.key).timestamp > EntryOf(store, ret'.key).ttl
        THEN /\ ret'.result = Null
             /\ ~MapHas(store', ret'.key)
             /\ Entries(store') = Entries(store) \ {EntryOf(store, ret'.key)}
        ELSE /\ store' = store
             /\ ret'.result = IF MapHas(store, ret'.key)
                              THEN EntryOf(store, ret'.key).data ELSE Null

C3_GetNeverReturnsExpired == [][C3_GetStep]_vars

(* A get has just found an expired entry: it returned null and removed the key *)
C3_Witness ==
    /\ ret.op = "get"
    /\ ret.held \in Values
    /\ ret.result = Null
    /\ ret.removed = 1
    /\ ~MapHas(store, ret.key)

(* C4: set(key, value, ttl) with ttl > 0 leaves under key an entry carrying
   value and the time of the set; while that entry is in the store, get(key) at
   a time t with t - storedAt <= ttl returns value, and get(key) at a time with
   t - storedAt > ttl returns null and leaves the store without key, one entry
   smaller; stats() reports the size and the keys of the store as it is. *)
C4_SetStep ==
    (StepOf("set") /\ ret'.ttl > 0)
    => /\ MapHas(store', ret'.key)
       /\ EntryOf(store', ret'.key).data = ret'.value
       /\ EntryOf(store', ret'.key).timestamp = now
       /\ EntryOf(store', ret'.key).arg = ret'.ttl

C4_GetStep ==
    (StepOf("get") /\ MapHas(store, ret'.key) /\ EntryOf(store, ret'.key).arg > 0)
    => IF now - EntryOf(store, ret'.key).timestamp <= EntryOf(store, ret'.key).arg
       THEN ret'.result = EntryOf(store, ret'.key).data
       ELSE /\ ret'.result = Null
            /\ ~MapHas(store', ret'.key)
            /\ Len(store') = Len(store) - 1

C4_StatsStep ==
    StepOf("stats")
    => /\ ret'.result.size = Cardinality(MapKeys(store))
       /\ {ret'.result.keys[n] : n \in 1 .. ret'.result.size} = MapKeys(store)

C4_SuppliedTtlGoverns == [][C4_SetStep /\ C4_GetStep /\ C4_StatsStep]_vars

(* A get has just found an entry expired that was stored with a supplied
   ttl > 0: the clock has not passed defaultTTL, so no entry stored with the
   default has expired yet *)
C4_Witness ==
    /\ ret.op = "get"
    /\ ret.held \in Values
    /\ ret.result = Null
    /\ ret.removed = 1
    /\ defaultTTL > 0
    /\ now <= defaultTTL

(* C5: set(key, v2) on a key that already holds an entry replaces the entry
   wholesale: the store holds one entry under key, with data v2, the time of
   this set as its timestamp and the ttl of this set (the supplied one when
   positive, the default when none is supplied); a following get(key) returns
   v2 for as long as now - timestamp <= ttl of that new entry. *)
C5_SetStep ==
    (StepOf("set") /\ MapHas(store, ret'.key))
    => /\ Cardinality({n \in 1 .. Len(store') : store'[n].key = ret'.key}) = 1
       /\ EntryOf(store', ret'.key).data = ret'.value
       /\ EntryOf(store', ret'.key).timestamp = now
       /\ ret'.ttl = Undefined => EntryOf(store', ret'.key).ttl = defaultTTL
       /\ ret'.ttl > 0 => EntryOf(store', ret'.key).ttl = ret'.ttl

C5_GetStep ==
    ( /\ StepOf("get")
      /\ MapHas(store, ret'.key)
      /\ now - EntryOf(store, ret'.key).timestamp <= EntryOf(store, ret'.key).ttl )
    => ret'.result = EntryOf(store, ret'.key).data

C5_OverwriteReplaces == [][C5_SetStep /\ C5_GetStep]_vars

(* A set has just put v2 under a key that held v1 *)
C5_Witness ==
    /\ ret.op = "set"
    /\ ret.held = "v1"
    /\ ret.value = "v2"
    /\ MapHas(store, ret.key)
    /\ EntryOf(store, ret.key).data = "v2"
    /\ EntryOf(store, ret.key).timestamp = now
    /\ now > 0

(* C6: an entry stored by set(key, value, ttl) has exactly the supplied ttl
   whenever a ttl is supplied, 0 included, and the cache's default TTL only
   when none is supplied. *)
C6_StoredTtlIsSupplied ==
    \A e \in Entries(store) :
        e.ttl = IF e.arg = Undefined THEN defaultTTL ELSE e.arg

(* C7: cleanup() removes exactly the entries with now - storedAt > ttl, leaves
   every other entry as it was and in its place, and returns the number of
   entries it removed. *)
C7_CleanupStep ==
    StepOf("cleanup") =>
        /\ Entries(store') = {e \in Entries(store) : ~(now - e.timestamp > e.ttl)}
        /\ Len(store') = Cardinality(Entries(store'))
        /\ \A m, n \in 1 .. Len(store') :
               m < n => \E a, b \in 1 .. Len(store) :
                            a < b /\ store[a] = store'[m] /\ store[b] = store'[n]
        /\ ret'.result = Len(store) - Len(store')

C7_CleanupRemovesExactlyExpired == [][C7_CleanupStep]_vars

(* A cleanup has just removed one entry and kept another *)
C7_Witness ==
    /\ ret.op = "cleanup"
    /\ ret.result = 1
    /\ ret.removed = 1
    /\ Len(store) = 1

(* C8: stopCleanup() and destroy() leave no live sweep timer; once the timer is
   not live it never becomes live again and the sweep does not run; destroy()
   leaves the store empty. *)
C8_Step ==
    /\ (StepOf("stopCleanup") \/ StepOf("destroy"))
           => (~timerLive' /\ cleanupInterval' = TimerNull)
    /\ ~timerLive => (~timerLive' /\ ~StepOf("sweep"))
    /\ StepOf("destroy") => store' = << >>

C8_NoSweepAfterStop == [][C8_Step]_vars

(* destroy() has just emptied a store that held entries and stopped the timer *)
C8_Witness ==
    /\ ret.op = "destroy"
    /\ ret.removed >= 1
    /\ ~timerLive
    /\ store = << >>

(* C9: while the sweep timer is live, an entry whose TTL has elapsed does not
   stay in the store for ever, even if its key is never read again (under weak
   fairness of the sweep). *)
C9_Stale(key) ==
    /\ timerLive
    /\ MapHas(store, key)
    /\ now - EntryOf(store, key).timestamp > EntryOf(store, key).ttl

C9_SweepRemovesExpired == \A key \in Keys : C9_Stale(key) ~> ~C9_Stale(key)

(* The sweep has just removed an expired entry *)
C9_Witness ==
    /\ ret.op = "sweep"
    /\ ret.removed >= 1
    /\ timerLive

(* The timer of setInterval fires again and again while it is live.  Which
   value an entry holds plays no part in its expiry: one value is stored. *)
SpecCacheLive == InitSpecCache /\ [][NextCacheOf({"v1"})]_vars /\ WF_vars(Sweep)

----------------------------------------------------------------------------
(* Properties of retryWithBackoff, checked under SpecRetry *)

(* C10: for attempts >= 1, when retryWithBackoff rejects, fn has been invoked
   exactly attempts times, every invocation failed, and the rejection is the
   error thrown by the last invocation, itself and not wrapped. *)
C10_RejectsAfterAllAttempts ==
    (pc = "rejected" /\ attempts >= 1)
    => /\ calls = attempts
       /\ Len(thrown) = attempts
       /\ outcome.kind = "rejected"
       /\ outcome.value = thrown[Len(thrown)]

(* Three attempts have failed, the last with another error than the first *)
C10_Witness ==
    /\ pc = "rejected"
    /\ attempts = 3
    /\ calls = 3
    /\ thrown = <<"e1", "e1", "e2">>

(* C11: the wait that follows the failure of the attempt of index k (from 0) is
   delay * 2^k, nothing added: the waits so far are delay, 2 * delay,
   4 * delay, ..., one per attempt that failed and was not the last, and a
   rejection after attempts >= 1 failures comes after attempts - 1 waits, none
   of them after the last failure. *)
C11_WaitsDoubleFromDelay ==
    /\ \A k \in 1 .. Len(sleeps) : sleeps[k] = delay * 2 ^ (k - 1)
    /\ Len(sleeps) = i
    /\ (pc = "rejected" /\ attempts >= 1)
           => (Len(sleeps) = attempts - 1 /\ Len(thrown) = Len(sleeps) + 1)

(* Four attempts have failed with delay 2: the waits were 2, 4 and 8 *)
C11_Witness ==
    /\ pc = "rejected"
    /\ attempts = 4
    /\ delay = 2
    /\ Len(thrown) = 4
    /\ sleeps = <<2, 4, 8>>

(* C12: when fn resolves, on its j-th invocation after j - 1 failures,
   j <= attempts, retryWithBackoff resolves with the value fn resolved with and
   fn has been invoked j times; once it has resolved, fn is not invoked again
   and the outcome stays. *)
C12_Step ==
    /\ \A v \in Results :
           FnResolves(v) => /\ outcome'.kind = "resolved"
                            /\ outcome'.value = v
                            /\ calls' = Len(thrown) + 1
                            /\ calls' <= attempts
    /\ pc = "resolved" => (pc' = "resolved" /\ calls' = calls /\ outcome' = outcome)

C12_ReturnsFirstSuccess == [][C12_Step]_vars

(* fn has resolved on its third invocation, after two failures *)
C12_Witness ==
    /\ pc = "resolved"
    /\ calls = 3
    /\ Len(thrown) = 2
    /\ outcome.kind = "resolved"
    /\ outcome.value \in Results

----------------------------------------------------------------------------
(* Properties of the functions on names, checked under SpecNames *)

Chars(s) == {s[n] : n \in 1 .. Len(s)}

(* C19: for every label, written without a dot, and every spelling of it got by
   changing the case of letters and by appending the TLD, the availability,
   resolution and pricing cache keys of the spelling are the keys of the
   label, and the spelling passes validateDomainName exactly when the label
   does. *)
C19_SpellingsShareKeys ==
    (out.fn = "generateCacheKeys" /\ "." \notin Chars(label))
    => /\ out.arg = spelling
       /\ out.result.availability = <<"availability:">> \o ToLowerCase(label)
       /\ out.result.resolution = <<"resolution:">> \o ToLowerCase(label)
       /\ \A years \in 1 .. MAX_REGISTRATION_YEARS :
              out.result.pricing[years]
                  = <<"pricing:">> \o ToLowerCase(label) \o <<":", ToString(years)>>
       /\ out.result = ReadKeys(label)
       /\ ValidateDomainName(spelling).valid = ValidateDomainName(label).valid

(* The keys of a valid label spelled with a capital and with the TLD *)
C19_Witness ==
    /\ out.fn = "generateCacheKeys"
    /\ "." \notin Chars(label)
    /\ ValidateDomainName(label).valid
    /\ Len(spelling) = Len(label) + Len(TLD)
    /\ spelling # ToLowerCase(spelling)
    /\ out.result = ReadKeys(label)

(* C20: normalizeDomainName applied to its own result on a name that
   validateDomainName accepts returns that result again; and on 'Alice.s' it
   returns what it returns on 'alice'. *)
C20_NormalizeIdempotent ==
    /\ ( /\ out.fn = "normalizeDomainName"
          /\ out.arg = NormalizeDomainName(spelling)
          /\ ValidateDomainName(spelling).valid )
       => out.result = out.arg
    /\ ( /\ out.fn = "normalizeDomainName"
          /\ out.arg = <<"A", "l", "i", "c", "e", ".", "s">> )
       => /\ out.result = NormalizeDomainName(<<"a", "l", "i", "c", "e">>)
          /\ out.result = <<"a", "l", "i", "c", "e">>

(* normalizeDomainName has been applied to its result on an accepted name that
   carries the TLD before its end *)
C20_Witness ==
    /\ out.fn = "normalizeDomainName"
    /\ ValidateDomainName(spelling).valid
    /\ Occurrences(ToLowerCase(spelling), TLD) # {}
    /\ Len(spelling) = Len(label)
    /\ out.arg = NormalizeDomainName(spelling)
    /\ out.arg # spelling
    /\ out.result = out.arg

----------------------------------------------------------------------------
(* Properties of the SNS, checked under SpecSNS *)

(* The entry the cache of the component of kind holds under the key of the
   read of name: used only where it holds one *)
CachedFor(kind, name, years) ==
    EntryOf(caches[CacheOf(kind)], KeyOf(kind, NormalizeDomainName(name), years))

IsCachedFor(kind, name, years) ==
    MapHas(caches[CacheOf(kind)], KeyOf(kind, NormalizeDomainName(name), years))

(* C13: a read (isAvailable, getPrice, resolve) whose remote call has failed
   with a transient error on every attempt rejects with a NetworkError, and
   the details of that error are the error of the last attempt. *)
C13_Step ==
    ( /\ pc = "rejected"
      /\ pc' = "idle"
      /\ Len(thrown) > 0
      /\ \A k \in 1 .. Len(thrown) : thrown[k] \in TransientErrors )
    => /\ reply'.op = inflight.kind
       /\ reply'.result.kind = "rejected"
       /\ reply'.result.value = "NetworkError: " \o thrown[Len(thrown)]

C13_RejectsWithNetworkError == [][C13_Step]_vars

(* resolve has rejected, after three attempts, with a NetworkError carrying e2 *)
C13_Witness ==
    /\ reply.op = "resolution"
    /\ reply.source = "remote"
    /\ reply.remote = 3
    /\ reply.result.kind = "rejected"
    /\ reply.result.value = "NetworkError: e2"

(* C14: a read of an SNS configured with retryAttempts = n and retryDelay = d
   whose remote call fails every time rejects after n invocations of the
   remote call, the waits between them starting from d. *)
C14_ConfiguredRetryHonoured ==
    (pc = "rejected" /\ inflight # NoRead)
    => /\ calls = cfg.retryAttempts
       /\ sleeps[1] = cfg.retryDelay

(* C15: an SNS configured with cacheEnabled = false answers no read from a
   cache. *)
C15_DisabledCacheNeverAnswers == ~cfg.cacheEnabled => reply.source # "cache"

(* C16: after a successful register, renew or setAddress for a name, no cache
   of the SNS holds an entry under a key of that name's domain. *)
DomainKeys(name) ==
    {KeyOf(kind, NormalizeDomainName(name), years) :
         kind \in ReadKinds, years \in 1 .. MAX_REGISTRATION_YEARS}

C16_Step ==
    \A name \in Names, years \in Years :
        (Register(name, years) \/ Renew(name, years) \/ SetAddress(name))
        => \A c \in Components : MapKeys(caches'[c]) \cap DomainKeys(name) = {}

C16_WriteInvalidatesAllCaches == [][C16_Step]_vars

(* C17: getPrice for a name and years whose price the registrar's cache holds,
   stored no more than 30 minutes ago, returns the stored price and invokes no
   remote call; the stored price is the one the getPrice that fetched it
   returned, stored at the time it was fetched. *)
C17_Step ==
    /\ (pc = "idle" /\ reply'.op = "pricing") =>
           \A name \in Names, years \in Years :
               ( /\ Begin("pricing", name, years)
                 /\ Accepts("pricing", name, years)
                 /\ IsCachedFor("pricing", name, years)
                 /\ now - CachedFor("pricing", name, years).timestamp <= 30 * 60 * 1000 )
               => /\ reply' = Reply("pricing", "cache",
                                    [kind |-> "resolved",
                                     value |-> CachedFor("pricing", name, years).data], 0)
                  /\ pc' = "idle"
                  /\ calls' = calls
                  /\ caches' = caches
    /\ (inflight.kind = "pricing" /\ pc = "call" /\ pc' = "resolved")
           => /\ EntryOf(caches'["registrar"], inflight.key).data = outcome'.value
              /\ EntryOf(caches'["registrar"], inflight.key).timestamp = now
    /\ (inflight.kind = "pricing" /\ pc = "resolved" /\ pc' = "idle")
           => /\ reply'.result = outcome
              /\ reply'.remote = calls

C17_SecondGetPriceFromCache == [][C17_Step]_vars

(* getPrice has been answered from the cache more than 5 minutes after the
   price was fetched *)
C17_Witness ==
    /\ reply.op = "pricing"
    /\ reply.source = "cache"
    /\ reply.remote = 0
    /\ \E e \in Entries(caches["registrar"]) :
           /\ e.data = reply.result.value
           /\ now - e.timestamp > 5 * 60 * 1000
           /\ now - e.timestamp <= 30 * 60 * 1000

(* C18: an availability result is cached for 30 seconds and a price for 30
   minutes, whatever the default TTL of the caches; a resolution result is
   cached for that default, the configured cacheTTL of an SNS whose caches
   are enabled.  A read is answered from a cache only with an entry no older
   than that. *)
OperationTTL(kind) ==
    CASE kind = "availability" -> 30 * 1000
      [] kind = "pricing" -> 30 * 60 * 1000
      [] kind = "resolution" -> IF cfg.cacheEnabled THEN cfg.cacheTTL ELSE 0

C18_Step ==
    /\ \A kind \in ReadKinds :
           \A e \in Entries(caches'[CacheOf(kind)]) : e.ttl = OperationTTL(kind)
    /\ (pc = "idle" /\ reply'.source = "cache") =>
           \A kind \in ReadKinds, name \in Names, years \in Years :
               Begin(kind, name, years)
               => /\ IsCachedFor(kind, name, years)
                  /\ now - CachedFor(kind, name, years).timestamp <= OperationTTL(kind)
                  /\ reply'.result.value = CachedFor(kind, name, years).data

C18_CachedForOperationTTL == [][C18_Step]_vars

(* isAvailable has fetched afresh 30 seconds and 1 ms after an earlier fetch,
   while the price fetched at that earlier time is still held *)
C18_Witness ==
    /\ reply.op = "availability"
    /\ reply.source = "remote"
    /\ reply.result.kind = "resolved"
    /\ now = 30 * 1000 + 1
    /\ \E e \in Entries(caches["registry"]) : e.timestamp = now
    /\ \E e \in Entries(caches["registrar"]) : e.timestamp = 0 /\ e.ttl = 30 * 60 * 1000

----------------------------------------------------------------------------
(* Properties of validateDomainName, checked under SpecNames *)

Letters == {LowerLetters[n] : n \in 1 .. 26}

(* C21: validateDomainName(name) returns valid = true exactly when the
   normalized name is 3 to 64 characters long, holds only a-z, 0-9 and '-',
   has no two hyphens in a row, starts with a letter and ends with a letter or
   a digit. *)
C21_ValidExactlyWhenRulesHold ==
    out.fn = "validateDomainName"
    => LET n == NormalizeDomainName(out.arg)
       IN  out.result.valid
           <=> /\ Len(n) >= 3
               /\ Len(n) <= 64
               /\ \A k \in 1 .. Len(n) : n[k] \in Letters \cup Digits \cup {"-"}
               /\ ~ \E k \in 1 .. Len(n) - 1 : n[k] = "-" /\ n[k + 1] = "-"
               /\ n[1] \in Letters
               /\ n[Len(n)] \in Letters \cup Digits

(* A name of 64 letters, written with a capital and the TLD, has been accepted *)
C21_Witness ==
    /\ out.fn = "validateDomainName"
    /\ out.arg = spelling
    /\ Len(spelling) = 64 + Len(TLD)
    /\ spelling # ToLowerCase(spelling)
    /\ out.result.valid

(* The six rules and whether the name n breaks each; the charset pattern asks
   for at least one character *)
Violations(n) ==
    [m \in {"too short", "too long", "invalid characters", "consecutive hyphens",
            "must start with a letter", "must end with a letter or number"} |->
        CASE m = "too short" -> Len(n) < 3
          [] m = "too long" -> Len(n) > 64
          [] m = "invalid characters" ->
                 n = << >> \/ \E k \in 1 .. Len(n) : n[k] \notin Letters \cup Digits \cup {"-"}
          [] m = "consecutive hyphens" ->
                 \E k \in 1 .. Len(n) - 1 : n[k] = "-" /\ n[k + 1] = "-"
          [] m = "must start with a letter" -> n = << >> \/ n[1] \notin Letters
          [] m = "must end with a letter or number" ->
                 n = << >> \/ n[Len(n)] \notin Letters \cup Digits]

(* C22: on a non-empty name the errors of validateDomainName hold one message
   for each rule the normalized name breaks and none for a rule it keeps; on
   '-ab' the message that a name must start with a letter is among them, with
   that of every other rule '-ab' breaks (it breaks no other). *)
C22_OneMessagePerViolatedRule ==
    (out.fn = "validateDomainName" /\ Len(out.arg) > 0)
    => LET n == NormalizeDomainName(out.arg)
           errors == out.result.errors
       IN  /\ \A k \in 1 .. Len(errors) : errors[k] \in DOMAIN Violations(n)
           /\ \A m \in DOMAIN Violations(n) :
                  Cardinality({k \in 1 .. Len(errors) : errors[k] = m})
                      = IF Violations(n)[m] THEN 1 ELSE 0
           /\ out.arg = <<"-", "a", "b">> => errors = <<"must start with a letter">>

(* A name that breaks the first-character rule and at least two more has been
   validated *)
C22_Witness ==
    /\ out.fn = "validateDomainName"
    /\ Len(out.arg) > 0
    /\ Len(out.result.errors) >= 3
    /\ \E k \in 1 .. Len(out.result.errors) :
           out.result.errors[k] = "must start with a letter"
    /\ \E k \in 1 .. Len(out.result.errors) : out.result.errors[k] = "invalid characters"

----------------------------------------------------------------------------
(* Properties of the pricing functions, checked under SpecPricing.  15 S is
   15 * 10^18 wei, which is 150000 of the model's units of 10^14 wei. *)

(* C23: calculateBasePrice gives 15 * 10^18 wei for a name of 3 characters,
   10 * 10^18 for 4, 7.5 * 10^18 for 5 and 5 * 10^18 for every length from 6
   on. *)
C23_BasePriceByLength ==
    out.fn = "calculateBasePrice"
    => /\ Len(out.arg) = 3 => out.result = 15 * 10000
       /\ Len(out.arg) = 4 => out.result = 10 * 10000
       /\ Len(out.arg) = 5 => out.result = 75 * 1000
       /\ Len(out.arg) >= 6 => out.result = 5 * 10000

(* The base price of a name of more than 6 characters has been computed *)
C23_Witness ==
    /\ out.fn = "calculateBasePrice"
    /\ Len(out.arg) > 6
    /\ out.result = 5 * 10000

(* C24: getDiscount(years) is 500, 1000, 1500 and 2000 basis points for 2, 3,
   4 and 5 years, and 0 for every other number of years, 1 included. *)
C24_DiscountByYears ==
    out.fn = "getDiscount"
    => out.result = CASE out.arg = 2 -> 500
                      [] out.arg = 3 -> 1000
                      [] out.arg = 4 -> 1500
                      [] out.arg = 5 -> 2000
                      [] OTHER -> 0

(* The discount of more than 5 years has been looked up *)
C24_Witness ==
    /\ out.fn = "getDiscount"
    /\ out.arg > 5
    /\ out.result = 0

(* The price the table of C23 gives a name of len characters, and the basis
   points the table of C24 gives a number of years *)
TablePrice(len) ==
    CASE len = 3 -> 150000 [] len = 4 -> 100000 [] len = 5 -> 75000 [] OTHER -> 50000

TableBps(years) ==
    CASE years = 2 -> 500 [] years = 3 -> 1000 [] years = 4 -> 1500
      [] years = 5 -> 2000 [] OTHER -> 0

(* C25: for every length and 1 to 5 years calculatePrice returns
   totalBasePrice = basePrice * years, discountAmount = totalBasePrice *
   discountBps divided by 10000 and truncated, and finalPrice = totalBasePrice
   - discountAmount; a name of 6 characters or more for 3 years has
   15 * 10^18, 1.5 * 10^18 and 13.5 * 10^18 wei. *)
C25_PriceArithmetic ==
    (out.fn = "calculatePrice" /\ out.arg[2] \in 1 .. 5)
    => LET len == Len(out.arg[1])
           years == out.arg[2]
           price == out.result
       IN  /\ price.basePrice = TablePrice(len)
           /\ price.discount = TableBps(years)
           /\ price.totalBasePrice = TablePrice(len) * years
           /\ price.discountAmount * 10000 <= price.totalBasePrice * TableBps(years)
           /\ (price.discountAmount + 1) * 10000 > price.totalBasePrice * TableBps(years)
           /\ price.finalPrice = price.totalBasePrice - price.discountAmount
           /\ (len >= 6 /\ years = 3)
              => /\ price.totalBasePrice = 150000
                 /\ price.discountAmount = 15000
                 /\ price.finalPrice = 135000

(* A discounted price has been computed for several years of a name of 6
   characters or more *)
C25_Witness ==
    /\ out.fn = "calculatePrice"
    /\ Len(out.arg[1]) >= 6
    /\ out.arg[2] = 3
    /\ out.result.discountAmount > 0
    /\ out.result.finalPrice < out.result.totalBasePrice

----------------------------------------------------------------------------
(* Properties of the reads of an unregistered name, checked under SpecSNS *)

(* C30: a read that finds no token for the domain rejects with
   DomainNotFoundError after a single lookup, with no wait in between: the
   condition is not retried with backoff. *)
C30_NotFoundAfterSingleLookup ==
    [][(pc = "rejected" /\ reply'.result = Rejection(DomainNotFoundError))
       => (calls = 1 /\ sleeps = << >>)]_vars

----------------------------------------------------------------------------
(* Properties of the writes of the facade, checked under SpecFacade *)

(* How many times the last invocation submitted a transaction *)
Submissions == Cardinality({n \in 1 .. Len(invocation.remote) : invocation.remote[n] = "tx"})

(* An argument of the last invocation of a public operation of SNS fails its
   validation: the domain name, the address of setAddress, the years of
   register and renew *)
InvalidArgument ==
    /\ invocation.op \notin {"none", "setResolver"}
    /\ \/ ~ValidateDomainName(invocation.name).valid
       \/ invocation.op = "setAddress" /\ ~ValidateAddress(invocation.address)
       \/ invocation.op \in {"register", "renew"} /\ ~ValidateYears(invocation.years)

(* C26: a public operation of SNS given a domain name, an address or a number
   of years that fails validation rejects with ValidationError, and issues no
   remote call, neither a read nor a transaction. *)
C26_InvalidArgumentNeverReachesChain ==
    InvalidArgument
    => /\ invocation.result = Rejection(ValidationError)
       /\ invocation.remote = << >>

(* C27: a write that requires ownership submits its transaction only if the
   owner the chain reports is the address of the signer, letter case apart;
   when it is not, the write rejects with PermissionError and submits
   nothing. *)
C27_SubmitsOnlyForOwner ==
    invocation.op \in OwnedWrites
    => LET owner == ToLowerCase(invocation.chain.owner)
           signer == ToLowerCase(invocation.chain.signerAddress)
           reported == /\ Len(invocation.remote) >= 2
                       /\ invocation.remote[2] = "getOwner"
                       /\ invocation.chain.getOwner = "ok"
       IN  /\ Submissions > 0 => owner = signer
           /\ (reported /\ owner # signer)
              => /\ invocation.result = Rejection(PermissionError)
                 /\ Submissions = 0

(* setResolver was refused to a signer who is not the owner, after the owner
   had been looked up *)
C27_Witness ==
    /\ invocation.op = "setResolver"
    /\ invocation.chain.owner = AddressOf("A")
    /\ invocation.chain.signerAddress = AddressOf("b")
    /\ invocation.remote = <<"getTokenId", "getOwner">>
    /\ invocation.result = Rejection(PermissionError)

(* C28: an invocation of register, of renew or of a write of a record submits
   its transaction at most once: when the submission fails it is not made
   again. *)
C28_SubmittedAtMostOnce ==
    invocation.op \in OwnedWrites \cup {"register", "renew"}
    => Submissions <= 1

(* The transaction of a register failed after its quote *)
C28_Witness ==
    /\ invocation.op = "register"
    /\ invocation.chain.stage = "tx"
    /\ invocation.remote = <<"getPrice", "tx">>
    /\ invocation.result.kind = "rejected"

(* The message of the error the chain answered the last register with holds
   the phrase *)
Says(phrase) ==
    /\ "message" \in DOMAIN invocation.chain.error
    /\ phrase \in Chars(invocation.chain.error.message)

(* C29: when register fails after its arguments have passed validation, the
   message of the error decides the rejection: 'Name taken' gives
   DomainUnavailableError, otherwise 'Incorrect payment' gives
   InsufficientPaymentError, otherwise 'Invalid name' gives ValidationError,
   and every other failure gives NetworkError. *)
C29_RegisterRejectionByMessage ==
    ( /\ invocation.op = "register"
      /\ ValidateDomainName(invocation.name).valid
      /\ ValidateYears(invocation.years)
      /\ invocation.result.kind = "rejected" )
    => invocation.result.value
           = IF Says("Name taken") THEN "DomainUnavailableError"
             ELSE IF Says("Incorrect payment") THEN "InsufficientPaymentError"
             ELSE IF Says("Invalid name") THEN "ValidationError"
             ELSE "NetworkError"

(* A register failed with a message that holds 'Invalid name' and, before it,
   a phrase that decides nothing *)
C29_Witness ==
    /\ invocation.op = "register"
    /\ ValidateDomainName(invocation.name).valid
    /\ ValidateYears(invocation.years)
    /\ invocation.chain.stage = "tx"
    /\ invocation.chain.error = [message |-> <<"name taken", "Invalid name">>]
    /\ invocation.result = Rejection("ValidationError")

----------------------------------------------------------------------------
(* Further properties of normalizeDomainName, checked under SpecNames *)

(* The name ends with the TLD *)
EndsWithTLD(s) == Len(s) >= Len(TLD) /\ SubSeq(s, Len(s) - Len(TLD) + 1, Len(s)) = TLD

(* C31: normalizeDomainName(name) is the name in lower case without one
   trailing '.s' when the name ends with '.s', and the name in lower case as it
   is otherwise; the empty name gives the empty string. *)
C31_NormalizeStripsTrailingTLD ==
    out.fn = "normalizeDomainName"
    => out.result
           = IF EndsWithTLD(ToLowerCase(out.arg))
             THEN SubSeq(ToLowerCase(out.arg), 1, Len(out.arg) - Len(TLD))
             ELSE ToLowerCase(out.arg)

----------------------------------------------------------------------------
(* A further property of the cache, checked under SpecCache *)

(* C37: set on a key the store holds already removes no other key, also when
   the store is at capacity: the overwrite does not grow the store, so nothing
   is evicted. *)
C37_OverwriteEvictsNothing ==
    [][(StepOf("set") /\ MapHas(store, ret'.key))
       => /\ MapKeys(store) \subseteq MapKeys(store')
          /\ Len(store') = Len(store)]_vars

----------------------------------------------------------------------------
(* Properties of chunkArray and SNS.resolveBatch, checked under SpecBatch and
   SpecBatchLive *)

RECURSIVE Concatenated(_)
Concatenated(chunks) ==
    IF chunks = << >> THEN << >> ELSE Head(chunks) \o Concatenated(Tail(chunks))

Reports(entries, domain) ==
    Cardinality({n \in 1 .. Len(entries) : entries[n].input = domain})

(* For chunkSize >= 1 the chunks chunkArray returned, concatenated in order,
   are the input array, and no chunk is longer than chunkSize *)
ChunksPartitionArray ==
    (batch.pc \in {"chunks", "returned"} /\ batch.chunkSize >= 1)
    => /\ Concatenated(batch.chunks) = batch.array
       /\ \A n \in 1 .. Len(batch.chunks) : Len(batch.chunks[n]) <= batch.chunkSize

(* For chunkSize >= 1 resolveBatch reports every input domain once for each
   place it has in domains: in successful when resolve answered, in failed
   when it threw *)
EveryDomainReportedOnce ==
    (batch.pc = "returned" /\ batch.chunkSize >= 1)
    => \A domain \in BatchDomains :
           /\ Reports(batch.successful, domain) + Reports(batch.failed, domain)
                  = Cardinality({n \in 1 .. Len(batch.array) : batch.array[n] = domain})
           /\ batch.resolve[domain] = "ok" => Reports(batch.failed, domain) = 0
           /\ batch.resolve[domain] # "ok" => Reports(batch.successful, domain) = 0

(* C40: chunkArray terminates for every array and every integer chunkSize,
   zero and negative included; for chunkSize >= 1 its chunks concatenated are
   the input and none is longer than chunkSize, so resolveBatch reports every
   input domain exactly once, in successful or in failed. *)
C40_ChunkArrayTerminatesAndPartitions ==
    /\ <>(batch.pc # "chunkArray")
    /\ []ChunksPartitionArray
    /\ []EveryDomainReportedOnce

----------------------------------------------------------------------------
(* Further properties of the facade, checked under SpecFacade *)

(* C39: setText and setTextBatch given a text-record key that validateTextKey
   rejects (empty, longer than 64 characters, or with a character other than
   letters, digits, dot and hyphen) reject with a validation failure before any
   remote call is issued. *)
C39_TextKeyValidatedBeforeChain ==
    (invocation.op \in TextWrites /\ ~ValidateTextKey(invocation.key).valid)
    => /\ invocation.result = Rejection(ValidationError)
       /\ invocation.remote = << >>

----------------------------------------------------------------------------
(* Properties of calls in progress at once, checked under SpecRace *)

Done(t) == tasks[t].pc \in {"returned", "rejected"}

(* The entries a store holds under key *)
EntriesUnder(s, key) == {n \in 1 .. Len(s) : s[n].key = key}

(* The pricing and renewal keys of domain for the years validateYears accepts *)
QuoteKeys(domain) ==
    UNION {{GeneratePricingCacheKey(domain, years),
            <<"renewal_">> \o GeneratePricingCacheKey(domain, years)} :
               years \in {y \in 0 .. MAX_REGISTRATION_YEARS + 1 : ValidateYears(y)}}

(* C32: register obtains its quote through getPrice, renew through
   getRenewalPrice, before it submits its transaction, and the value attached
   to the transaction is the price field of that quote, asked for the same
   normalized domain and years. *)
C32_TxValueIsQuotedPrice ==
    \A t \in TaskIds :
        tasks[t].tx.fn # "none"
        => /\ tasks[t].quote.asked
                  = <<IF tasks[t].op = "register" THEN "getPrice" ELSE "getRenewalPrice",
                      NormalizeDomainName(tasks[t].name), tasks[t].years>>
           /\ tasks[t].tx.value = tasks[t].quote.result.price
           /\ tasks[t].tx.fn = tasks[t].op
           /\ tasks[t].tx.domain = NormalizeDomainName(tasks[t].name)
           /\ tasks[t].tx.years = tasks[t].years

(* A renew returned after paying the price another call had fetched and cached *)
C32_Witness ==
    \E t \in TaskIds :
        /\ tasks[t].op = "renew"
        /\ tasks[t].pc = "returned"
        /\ tasks[t].source = "cache"
        /\ tasks[t].quote.by # t
        /\ tasks[t].tx.value = tasks[t].quote.result.price

(* C33: in isAvailable, when available() reports false but the token lookup
   gives the sentinel id 0, the result is {available: true} and is cached for 30
   seconds as any availability result; when the token id is not 0 the result
   has available = false, reason 'expired' if isExpired is true and 'taken'
   otherwise, and the owner and the expiry time. *)
C33_AvailabilityFromTokenLookup ==
    \A t \in TaskIds :
        (/\ tasks[t].op = "isAvailable"
         /\ tasks[t].pc = "returned"
         /\ tasks[t].source = "remote"
         /\ ~tasks[t].heard.value.available)
        => /\ \E n \in 1 .. Len(caches["registry"]) :
                  /\ caches["registry"][n].key
                         = GenerateAvailabilityCacheKey(NormalizeDomainName(tasks[t].name))
                  /\ caches["registry"][n].ttl = 30 * 1000
                  /\ caches["registry"][n].data.by = t
                         => caches["registry"][n].data = tasks[t].result.value
           /\ IF tasks[t].heard.value.tokenId = 0
              THEN tasks[t].result.value.result = [available |-> TRUE]
              ELSE tasks[t].result.value.result
                       = [available |-> FALSE,
                          reason |-> IF tasks[t].heard.value.expired
                                     THEN "expired" ELSE "taken",
                          owner |-> tasks[t].heard.value.owner,
                          expiryTime |-> tasks[t].heard.value.expiryTime]

(* isAvailable returned {available: true} on the sentinel id *)
C33_Witness ==
    \E t \in TaskIds :
        /\ tasks[t].op = "isAvailable"
        /\ tasks[t].pc = "returned"
        /\ tasks[t].source = "remote"
        /\ ~tasks[t].heard.value.available
        /\ tasks[t].heard.value.tokenId = 0
        /\ tasks[t].result.value.result = [available |-> TRUE]

(* C34: after a successful register or renew for domain d the registrar cache
   holds no pricing entry and no renewal-pricing entry for d, for any year
   count validateYears accepts (1 to 5), while the entries of other domains
   are left as they were. *)
C34_WriteClearsQuotesOfDomainOnly ==
    [][\A t \in TaskIds :
          (tasks[t].pc = "submitted" /\ tasks'[t].pc = "returned")
          => /\ MapKeys(caches'["registrar"])
                    \cap QuoteKeys(NormalizeDomainName(tasks[t].name)) = {}
             /\ caches'["registrar"]
                    = SelectSeq(caches["registrar"],
                                LAMBDA e : e.key \notin
                                    QuoteKeys(NormalizeDomainName(tasks[t].name)))
             /\ caches'["registry"] = caches["registry"]
             /\ caches'["resolver"] = caches["resolver"]]_vars

(* A register for 1 year returned after a getPrice for 2 years of the same
   domain had fetched and returned, and the quote is gone *)
C34_Witness ==
    /\ ledger.completed = <<"first", "second">>
    /\ tasks["first"].op = "getPrice" /\ tasks["first"].years = 2
    /\ tasks["first"].source = "remote" /\ tasks["first"].pc = "returned"
    /\ tasks["second"].op = "register" /\ tasks["second"].years = 1
    /\ tasks["second"].pc = "returned"
    /\ NormalizeDomainName(tasks["first"].name) = NormalizeDomainName(tasks["second"].name)
    /\ tasks["first"].name # tasks["second"].name
    /\ caches["registrar"] = << >>

(* C35: two reads of one uncached key in progress at once may both miss and
   each send its own request; each returns what its own request produced, and
   once both have completed the cache holds one entry for the key, the one
   written by the read that completed last. *)
C35_LastCompletedReadIsCached ==
    \A t, u \in TaskIds :
        (/\ t # u
         /\ tasks[t].op \in ReadOps /\ tasks[u].op \in ReadOps
         /\ tasks[t].pc = "returned" /\ tasks[u].pc = "returned"
         /\ tasks[t].source = "remote" /\ tasks[u].source = "remote"
         /\ tasks[t].op = tasks[u].op
         /\ CacheKeyOf(tasks[t].op, tasks[t].name, tasks[t].years)
                = CacheKeyOf(tasks[u].op, tasks[u].name, tasks[u].years)
         /\ ledger.completed = <<t, u>>)
        => /\ tasks[t].result.value.by = t
           /\ tasks[u].result.value.by = u
           /\ tasks[t].result.value.attempt = tasks[t].attempt
           /\ tasks[u].result.value.attempt = tasks[u].attempt
           /\ Cardinality(EntriesUnder(caches[CacheOf(KindOf(tasks[u].op))],
                  CacheKeyOf(tasks[u].op, tasks[u].name, tasks[u].years))) = 1
           /\ MapGet(caches[CacheOf(KindOf(tasks[u].op))],
                     CacheKeyOf(tasks[u].op, tasks[u].name, tasks[u].years)).data
                  = tasks[u].result.value

(* Both reads missed and fetched, the second after a retry; the first
   completed last *)
C35_Witness ==
    /\ tasks["first"].op = "getPrice" /\ tasks["second"].op = "getPrice"
    /\ tasks["first"].name # tasks["second"].name
    /\ tasks["first"].pc = "returned" /\ tasks["second"].pc = "returned"
    /\ tasks["first"].source = "remote" /\ tasks["second"].source = "remote"
    /\ tasks["first"].attempt = 0 /\ tasks["second"].attempt = 1
    /\ ledger.completed = <<"second", "first">>
    /\ Len(caches["registrar"]) = 1
    /\ caches["registrar"][1].data.by = "first"

(* C36: in every interleaving of a getPrice or getRenewalPrice read with a
   register or renew write on the same domain, once the write has returned
   successfully the cache holds no quote for the domain that was fetched from
   the chain before the write's transaction was submitted, also when the read
   was in progress while the write ran. *)
C36_NoQuoteOlderThanWrite ==
    \A t \in TaskIds :
        (tasks[t].op \in WriteOps /\ tasks[t].pc = "returned")
        => \A n \in 1 .. Len(caches["registrar"]) :
               caches["registrar"][n].data.asked[2] = NormalizeDomainName(tasks[t].name)
               => caches["registrar"][n].data.at >= tasks[t].tx.at

(* C38: if a cached read (isAvailable, getPrice, getRenewalPrice, resolve,
   reverseResolve) rejects, with not-found, expired, a resolver error or after
   its retries are used up, no cache entry of its key was created or changed by
   that call. *)
C38_RejectedReadWroteNothing ==
    \A t \in TaskIds :
        (tasks[t].op \in ReadOps /\ tasks[t].pc = "rejected")
        => \A c \in Components :
               \A n \in 1 .. Len(caches[c]) : caches[c][n].data.by # t

(* A read rejected after its retries while the cache holds, under the key of
   that read, what another read fetched *)
C38_Witness ==
    \E t, u \in TaskIds :
        /\ tasks[t].op = "resolve" /\ tasks[t].pc = "rejected"
        /\ tasks[t].attempt = DEFAULT_ATTEMPTS - 1
        /\ tasks[u].op = "resolve" /\ tasks[u].pc = "returned"
        /\ Len(caches["resolver"]) = 1
        /\ caches["resolver"][1].key
               = GenerateResolutionCacheKey(NormalizeDomainName(tasks[t].name))
        /\ caches["resolver"][1].data.by = u

(* A register returned after its transaction and its clearDomainCache, and the
   cache holds the quote a getPrice of the same domain fetched before the
   transaction and cached after the register returned *)
StaleQuoteCached ==
    /\ tasks["first"].op = "register" /\ tasks["first"].pc = "returned"
    /\ tasks["second"].op = "getPrice" /\ tasks["second"].pc = "returned"
    /\ ledger.completed = <<"first", "second">>
    /\ Len(caches["registrar"]) = 1
    /\ caches["registrar"][1].data.by = "second"
    /\ caches["registrar"][1].data.at < tasks["first"].tx.at

(* With the clock moving (SpecSNS): when a read rejects after its remote call,
   the cache holds no entry under its key; an entry that had expired was
   deleted by the look into the cache that preceded the call *)
RejectedReadLeavesNoEntry ==
    [][(pc = "rejected" /\ pc' = "idle" /\ inflight # NoRead)
       => ~MapHas(caches'[CacheOf(inflight.kind)], inflight.key)]_vars

====
